---- MODULE Spec2Model ----
(***************************************************************************)
(* vnc-agent-bridge: the Facade (core/bridge.py), the connection it        *)
(* instantiates (core/connection.py), the input, clipboard and screenshot  *)
(* controllers and the video recorder with its background worker thread.   *)
(*                                                                         *)
(* One caller thread invokes the public methods; every public method is    *)
(* one action, except the loops of the recorder, which take one step per   *)
(* iteration.  The server and the network are the environment: the server  *)
(* appends bytes to the client's receive stream, may close the stream, and *)
(* a write may fail at any send of an operation.                           *)
(***************************************************************************)
EXTENDS Integers, Sequences, FiniteSets, TLC

(***************************************************************************)
(* Bounds of the model.                                                    *)
(***************************************************************************)
\* longest receive stream to which the server still appends a message
MaxInbuf == 4
\* a write of an operation may fail at its 1st .. MaxFailAt-th send
MaxFailAt == 2
\* number of capture-object generations (one per successful Facade.connect)
\* number of background worker threads ever started
MaxWorkers == 2
\* longest frame list a recording collects
MaxFrames == 2

(***************************************************************************)
(* Program constants.                                                      *)
(***************************************************************************)
POINTER_EVENT == 5
KEY_EVENT == 4
FRAMEBUFFER_UPDATE_REQUEST == 3
FRAMEBUFFER_UPDATE == 0
CLIPBOARD_TEXT_CLIENT == 6
CLIPBOARD_TEXT_SERVER == 3
\* b"RFB 003.008\n"
PROTOCOL_VERSION == <<82, 70, 66, 32, 48, 48, 51, 46, 48, 48, 56, 10>>
\* largest 16-bit coordinate accepted by _validate_coordinates
MaxCoordinate == 65535
\* FramebufferConfig defaults of VNCAgentBridge.connect
DefaultWidth == 1920
DefaultHeight == 1080
\* MouseButton values
LEFT == 0
MIDDLE == 1
RIGHT == 2
\* ScrollDirection values
UP == 0
DOWN == 1

VARIABLES
  socket,            \* VNCConnection._socket: "none" | "open"
  connected,         \* VNCConnection._connected
  inbuf,             \* bytes the server has sent and the client has not read
  peerClosed,        \* the server closed the stream (recv returns b"" at its end)
  bridge,            \* VNCAgentBridge._mouse .. _video: 0 is None
  current_position,  \* MouseController._current_position
  button_mask,       \* MouseController._button_mask
  cached_content,    \* ClipboardController._cached_content: <<>> is None, else <<text>>
  fb_buffer,         \* FramebufferManager._buffer is allocated (not None)
  fb_dirty,          \* FramebufferManager._is_dirty
  should_stop,       \* VideoRecorder._should_stop_recording
  is_recording,      \* VideoRecorder._is_recording of the Facade's recorder
  frames,            \* VideoRecorder._frames of the Facade's recorder (frame numbers)
  frame_count,       \* VideoRecorder._frame_count of the Facade's recorder
  recording_thread,  \* VideoRecorder._recording_thread: 0 is None, else a worker
  workers,           \* the worker threads: position, local frame_num, and, once the
                     \* Facade dropped their recorder, that recorder's flag and buffer
  capture_deps,      \* numpy and the capture modules can be imported
  transport,         \* the class of the connection object: "VNCConnection" (the
                     \* Facade's), "TCPVNCConnection" or "WebSocketVNCConnection"
  callerPc,          \* where the caller thread is: "idle", or inside a loop
  loc,               \* locals of the caller's loop: frames, frame_num, and what
                     \* condition() of record_until answered in this iteration
  scope,             \* the with-block: state, disconnect calls made by __exit__
  op,                \* the last public call the caller made
  args,              \* its arguments, as a tuple
  err,               \* the error it raised, "none" if it returned
  ret,               \* what it returned (as a string tag)
  sent,              \* the messages it wrote to the transport, in order (for a call
                     \* of several steps: those of its last step)
  result,            \* the frame list it returned (frame numbers)
  actor,             \* the thread that took the last step: caller, worker or server
  linked,            \* a connect() has succeeded since construction or since the
                     \* last disconnect()
  ws_frames,         \* the WebSocket messages the server has sent and recv() has not
                     \* returned yet, in order
  recv_buffer,       \* WebSocketVNCConnection._recv_buffer
  delivered,         \* every byte the server has sent since the socket was opened
  returned,          \* every byte _recv_exact has returned since then, in order
  raster             \* FramebufferManager._buffer: the pixel at each (y, x)

\* the receive side of a WebSocketVNCConnection and the raster of a
\* FramebufferManager
engineVars == <<ws_frames, recv_buffer, delivered, returned, raster>>

vars == <<socket, connected, inbuf, peerClosed, bridge, current_position,
          button_mask, cached_content, fb_buffer, fb_dirty, should_stop,
          is_recording, frames, frame_count, recording_thread, workers,
          capture_deps, transport, engineVars, callerPc, loc, scope, op, args, err, ret, sent, result,
          actor, linked>>

\* the record of the caller's last call
lastCall == <<op, args, err, ret, sent, result>>
\* what only the Facade, the input controllers and the clipboard touch
inputVars == <<bridge, current_position, button_mask, cached_content, capture_deps,
               transport, engineVars, scope, linked>>

(***************************************************************************)
(* Values.                                                                 *)
(***************************************************************************)
\* a message written to the transport
Ev(t, a, b, c) == [t |-> t, a |-> a, b |-> b, c |-> c]
PointerEv(x, y, mask) == Ev("pointer", x, y, mask)
KeyEv(code, down) == Ev("key", code, IF down THEN 1 ELSE 0, 0)
RawEv(bytes) == Ev("raw", IF bytes = <<>> THEN 0 ELSE bytes[1], Len(bytes), 0)

\* the connection object as a value
Conn == [socket |-> socket, connected |-> connected]
NoWorker == [pc |-> "unused", frame_num |-> 0, orphan |-> FALSE,
             stop |-> FALSE, alloc |-> FALSE, told |-> FALSE]
NoBridge == [mouse |-> FALSE, keyboard |-> FALSE, scroll |-> FALSE,
             framebuffer |-> FALSE, screenshot |-> FALSE, video |-> FALSE]

\* evaluate v once and use it as the argument of F
Bind(v, F(_)) == CHOOSE r \in {F(x) : x \in {v}} : TRUE

U16(s) == s[1] * 256 + s[2]
U32(s) == ((s[1] * 256 + s[2]) * 256 + s[3]) * 256 + s[4]


(***************************************************************************)
(* VNCConnection (core/connection.py), the class the Facade instantiates.  *)
(* Its protocol methods are the same, line for line, in TCPVNCConnection.  *)
(***************************************************************************)
is_connected(c) == c.connected /\ c.socket # "none"

cleanup_socket(c) == [socket |-> "none", connected |-> FALSE]

conn_disconnect(c) == [socket |-> "none", connected |-> FALSE]

\* _recv_exact(count) on a stream holding buf: the bytes, or a timeout that
\* drops what was read so far, or the peer's close, which tears the socket down
recv_exact(buf, count, closed) ==
  IF Len(buf) >= count
    THEN [st |-> "ok", data |-> SubSeq(buf, 1, count),
          rest |-> SubSeq(buf, count + 1, Len(buf))]
    ELSE [st |-> IF closed THEN "closed" ELSE "timeout", data |-> <<>>, rest |-> <<>>]

\* the error _recv_exact raises, and the connection it leaves
recv_error(st) == IF st = "closed" THEN "VNCConnectionError" ELSE "VNCTimeoutError"
recv_conn(c, st) == IF st = "closed" THEN cleanup_socket(c) ELSE c

\* send_* methods without _validate_connection: _send_raw finds no socket
send_events_unvalidated(c, evs, failAt) ==
  IF evs = <<>> THEN [conn |-> c, n |-> 0, err |-> "none"]
  ELSE IF c.socket = "none" THEN [conn |-> c, n |-> 0, err |-> "VNCConnectionError"]
  ELSE IF failAt \in 1..Len(evs)
    THEN [conn |-> cleanup_socket(c), n |-> failAt - 1, err |-> "VNCConnectionError"]
    ELSE [conn |-> c, n |-> Len(evs), err |-> "none"]

\* the send_* methods called one after the other for the messages evs:
\* _validate_connection, then _send_raw, which fails at the failAt-th send
send_events(c, evs, failAt) ==
  IF evs = <<>> THEN [conn |-> c, n |-> 0, err |-> "none"]
  ELSE IF ~is_connected(c) THEN [conn |-> c, n |-> 0, err |-> "VNCStateError"]
  ELSE IF failAt \in 1..Len(evs)
    THEN [conn |-> cleanup_socket(c), n |-> failAt - 1, err |-> "VNCConnectionError"]
    ELSE [conn |-> c, n |-> Len(evs), err |-> "none"]

RECURSIVE read_rectangles(_, _, _, _)
read_rectangles(buf, k, closed, acc) ==
  IF k = 0 THEN [st |-> "ok", rest |-> buf, rects |-> acc]
  ELSE Bind(recv_exact(buf, 12, closed), LAMBDA h :
    IF h.st # "ok" THEN [st |-> h.st, rest |-> <<>>, rects |-> acc]
    ELSE LET x == U16(SubSeq(h.data, 1, 2))
             y == U16(SubSeq(h.data, 3, 4))
             width == U16(SubSeq(h.data, 5, 6))
             height == U16(SubSeq(h.data, 7, 8))
             encoding == U32(SubSeq(h.data, 9, 12))
         IN IF encoding # 0 THEN [st |-> "encoding", rest |-> h.rest, rects |-> acc]
            ELSE Bind(recv_exact(h.rest, width * height * 4, closed), LAMBDA p :
              IF p.st # "ok" THEN [st |-> p.st, rest |-> <<>>, rects |-> acc]
              ELSE read_rectangles(p.rest, k - 1, closed,
                     Append(acc, [x |-> x, y |-> y, width |-> width,
                                  height |-> height, data |-> p.data]))))

\* what a failed _recv_exact makes of a read_framebuffer_update call
fbu_recv_failed(c, st) ==
  [err |-> recv_error(st), conn |-> recv_conn(c, st), rest |-> <<>>, rects |-> <<>>]

read_framebuffer_update(c, buf, closed) ==
  IF ~is_connected(c)
    THEN [err |-> "VNCStateError", conn |-> c, rest |-> buf, rects |-> <<>>]
  ELSE Bind(recv_exact(buf, 1, closed), LAMBDA t :
    IF t.st # "ok" THEN fbu_recv_failed(c, t.st)
    ELSE IF t.data[1] # FRAMEBUFFER_UPDATE
      THEN [err |-> "VNCProtocolError", conn |-> c, rest |-> t.rest, rects |-> <<>>]
    ELSE Bind(recv_exact(t.rest, 1, closed), LAMBDA pad :
      IF pad.st # "ok" THEN fbu_recv_failed(c, pad.st)
      ELSE Bind(recv_exact(pad.rest, 2, closed), LAMBDA num :
        IF num.st # "ok" THEN fbu_recv_failed(c, num.st)
        ELSE Bind(read_rectangles(num.rest, U16(num.data), closed, <<>>), LAMBDA r :
          IF r.st = "ok" THEN [err |-> "none", conn |-> c, rest |-> r.rest, rects |-> r.rects]
          ELSE IF r.st = "encoding"
            THEN [err |-> "VNCProtocolError", conn |-> c, rest |-> r.rest, rects |-> <<>>]
            ELSE fbu_recv_failed(c, r.st)))))

\* what a failed _recv_exact makes of a receive_clipboard_text call: the
\* error is swallowed and None returned
clip_recv_failed(c, st) ==
  [err |-> "none", conn |-> recv_conn(c, st), rest |-> <<>>, text |-> <<>>]

\* receive_clipboard_text: text is <<>> for None, else <<the decoded text>>
receive_clipboard_text(c, buf, closed) ==
  IF ~is_connected(c)
    THEN [err |-> "VNCStateError", conn |-> c, rest |-> buf, text |-> <<>>]
  ELSE Bind(recv_exact(buf, 1, closed), LAMBDA t :
    IF t.st # "ok" THEN clip_recv_failed(c, t.st)
    ELSE IF t.data[1] # CLIPBOARD_TEXT_SERVER
      THEN [err |-> "none", conn |-> c, rest |-> t.rest, text |-> <<>>]
    ELSE Bind(recv_exact(t.rest, 1, closed), LAMBDA pad :
      IF pad.st # "ok" THEN clip_recv_failed(c, pad.st)
      ELSE Bind(recv_exact(pad.rest, 4, closed), LAMBDA len :
        IF len.st # "ok" THEN clip_recv_failed(c, len.st)
        ELSE Bind(recv_exact(len.rest, U32(len.data), closed), LAMBDA body :
          IF body.st # "ok" THEN clip_recv_failed(c, body.st)
          ELSE [err |-> "none", conn |-> c, rest |-> body.rest,
                text |-> <<body.data>>]))))

\* _perform_handshake on the bytes the server sends; failAt: the write that fails
perform_handshake(buf, closed, failAt) ==
  Bind(recv_exact(buf, 12, closed), LAMBDA v :
    IF v.st # "ok" THEN [ok |-> FALSE, rest |-> <<>>, out |-> <<>>]
    ELSE IF v.data # PROTOCOL_VERSION THEN [ok |-> FALSE, rest |-> v.rest, out |-> <<>>]
    ELSE IF failAt = 1 THEN [ok |-> FALSE, rest |-> v.rest, out |-> <<>>]
    ELSE Bind(recv_exact(v.rest, 4, closed), LAMBDA a :
      LET out1 == <<RawEv(PROTOCOL_VERSION)>> IN
      IF a.st # "ok" THEN [ok |-> FALSE, rest |-> <<>>, out |-> out1]
      ELSE IF U32(a.data) = 0
        THEN Bind(recv_exact(a.rest, 4, closed), LAMBDA n :
           IF n.st # "ok" THEN [ok |-> FALSE, rest |-> <<>>, out |-> out1]
           ELSE [ok |-> FALSE, rest |-> recv_exact(n.rest, U32(n.data), closed).rest,
                 out |-> out1])
      ELSE IF U32(a.data) = 1
        THEN IF failAt = 2 THEN [ok |-> FALSE, rest |-> a.rest, out |-> out1]
             ELSE [ok |-> TRUE, rest |-> a.rest, out |-> Append(out1, RawEv(<<1>>))]
      ELSE [ok |-> FALSE, rest |-> a.rest, out |-> out1]))

\* connect(): tcp is how socket.connect ends; every failure inside the
\* handshake is re-raised as VNCProtocolError after _cleanup_socket
conn_connect(c, tcp, script, failAt) ==
  IF c.connected
    THEN [err |-> "VNCStateError", conn |-> c, fresh |-> FALSE, rest |-> <<>>, out |-> <<>>]
  ELSE IF tcp = "timeout"
    THEN [err |-> "VNCTimeoutError", conn |-> cleanup_socket(c), fresh |-> TRUE,
          rest |-> <<>>, out |-> <<>>]
  ELSE IF tcp = "refused"
    THEN [err |-> "VNCConnectionError", conn |-> cleanup_socket(c), fresh |-> TRUE,
          rest |-> <<>>, out |-> <<>>]
  ELSE Bind(perform_handshake(script, FALSE, failAt), LAMBDA h :
    IF h.ok
      THEN [err |-> "none", conn |-> [socket |-> "open", connected |-> TRUE],
            fresh |-> TRUE, rest |-> h.rest, out |-> h.out]
      ELSE [err |-> "VNCProtocolError", conn |-> cleanup_socket(c), fresh |-> TRUE,
            rest |-> <<>>, out |-> h.out])


(***************************************************************************)
(* TCPVNCConnection (core/connection_tcp.py) and WebSocketVNCConnection    *)
(* (core/connection_websocket.py): connect and the RFB 3.8 handshake with  *)
(* VNC authentication.  A handshake returns the error it raises, the bytes *)
(* it left unread and the messages it wrote; failAt is the write that      *)
(* fails, des tells whether a DES library can be imported.                 *)
(***************************************************************************)
\* the 16-byte response of _vnc_auth_response; its content is not modelled
AuthResponseEv == Ev("response", 0, 16, 0)

\* a handshake step that raises
HandshakeRaises(error, rest, out) == [err |-> error, rest |-> rest, out |-> out]
\* a _recv_exact of the handshake that fails
HandshakeReadFails(st, out) == HandshakeRaises(recv_error(st), <<>>, out)

\* steps 6 and 7: ClientInit, then ServerInit read and skipped
client_init(buf, closed, fails, out) ==
  IF fails THEN HandshakeRaises("VNCConnectionError", buf, out)
  ELSE LET o == Append(out, RawEv(<<1>>)) IN
    Bind(recv_exact(buf, 4, closed), LAMBDA h :
      IF h.st # "ok" THEN HandshakeReadFails(h.st, o)
      ELSE Bind(recv_exact(h.rest, 16, closed), LAMBDA pf :
        IF pf.st # "ok" THEN HandshakeReadFails(pf.st, o)
        ELSE Bind(recv_exact(pf.rest, 4, closed), LAMBDA nl :
          IF nl.st # "ok" THEN HandshakeReadFails(nl.st, o)
          ELSE IF U32(nl.data) > 0
            THEN Bind(recv_exact(nl.rest, U32(nl.data), closed), LAMBDA nm :
              IF nm.st # "ok" THEN HandshakeReadFails(nm.st, o)
              ELSE HandshakeRaises("none", nm.rest, o))
            ELSE HandshakeRaises("none", nl.rest, o))))

\* step 5 for security type 2: challenge, response, 4-byte result
vnc_auth(buf, closed, failAt, des, out) ==
  Bind(recv_exact(buf, 16, closed), LAMBDA ch :
    IF ch.st # "ok" THEN HandshakeReadFails(ch.st, out)
    ELSE IF ~des THEN HandshakeRaises("VNCProtocolError", ch.rest, out)
    ELSE IF failAt = 3 THEN HandshakeRaises("VNCConnectionError", ch.rest, out)
    ELSE LET o == Append(out, AuthResponseEv) IN
      Bind(recv_exact(ch.rest, 4, closed), LAMBDA a :
        IF a.st # "ok" THEN HandshakeReadFails(a.st, o)
        ELSE IF U32(a.data) # 0
          THEN HandshakeRaises("VNCAuthenticationError", a.rest, o)
          ELSE client_init(a.rest, closed, failAt = 4, o)))

\* the first type of the server's list, whatever it is
select_first_offered(types) == types[1]

\* no-auth (1) before VNC auth (2) before whatever comes first
select_security_type(types) ==
  IF \E i \in DOMAIN types : types[i] = 1 THEN 1
  ELSE IF \E i \in DOMAIN types : types[i] = 2 THEN 2
  ELSE types[1]

\* steps 4 and 5: the selected type is sent, then authentication
security(selected, buf, closed, failAt, des, out) ==
  IF failAt = 2 THEN HandshakeRaises("VNCConnectionError", buf, out)
  ELSE LET o == Append(out, RawEv(<<selected>>)) IN
    IF selected = 1 THEN client_init(buf, closed, failAt = 3, o)
    ELSE IF selected = 2 THEN vnc_auth(buf, closed, failAt, des, o)
    ELSE HandshakeRaises("VNCProtocolError", buf, o)

\* num_security_types = 0: the server's reason is read, the connection refused
refused(buf, closed, out) ==
  Bind(recv_exact(buf, 4, closed), LAMBDA n :
    IF n.st # "ok" THEN HandshakeReadFails(n.st, out)
    ELSE Bind(recv_exact(n.rest, U32(n.data), closed), LAMBDA reason :
      IF reason.st # "ok" THEN HandshakeReadFails(reason.st, out)
      ELSE HandshakeRaises("VNCConnectionError", reason.rest, out)))

\* a version check that looks at "RFB 003." only
version_supported_major_only(server_version) ==
  SubSeq(server_version, 1, 8) = SubSeq(PROTOCOL_VERSION, 1, 8)

\* step 1: the 12 bytes must be the client's own version string
version_supported(server_version) == server_version = PROTOCOL_VERSION

\* TCPVNCConnection._perform_handshake
tcp_perform_handshake(buf, closed, failAt, des) ==
  Bind(recv_exact(buf, 12, closed), LAMBDA v :
    IF v.st # "ok" THEN HandshakeReadFails(v.st, <<>>)
    ELSE IF ~version_supported(v.data)
      THEN HandshakeRaises("VNCProtocolError", v.rest, <<>>)
    ELSE IF failAt = 1 THEN HandshakeRaises("VNCConnectionError", v.rest, <<>>)
    ELSE LET o == <<RawEv(PROTOCOL_VERSION)>> IN
      Bind(recv_exact(v.rest, 1, closed), LAMBDA n :
        IF n.st # "ok" THEN HandshakeReadFails(n.st, o)
        ELSE IF n.data[1] = 0 THEN refused(n.rest, closed, o)
        ELSE Bind(recv_exact(n.rest, n.data[1], closed), LAMBDA t :
          IF t.st # "ok" THEN HandshakeReadFails(t.st, o)
          ELSE security(select_security_type(t.data), t.rest, closed, failAt, des, o))))

\* WebSocketVNCConnection._perform_handshake: the same steps, with a
\* _vnc_auth_response that never raises: when no DES library can be imported
\* it XORs the challenge with the key and returns that as the response
ws_perform_handshake(buf, closed, failAt, des) ==
  tcp_perform_handshake(buf, closed, failAt, TRUE)

\* what a connect() makes of the connection
Connected(h) ==
  [err |-> "none", conn |-> [socket |-> "open", connected |-> TRUE], fresh |-> TRUE,
   rest |-> h.rest, out |-> h.out]
\* a connect() that raises and leaves the socket it created open
connect_raises_uncleaned(c, error, out) ==
  [err |-> error, conn |-> [socket |-> "open", connected |-> FALSE], fresh |-> TRUE,
   rest |-> <<>>, out |-> out]
ConnectRaises(c, error, out) ==
  [err |-> error, conn |-> cleanup_socket(c), fresh |-> TRUE, rest |-> <<>>, out |-> out]

\* TCPVNCConnection.connect: socket.timeout and socket.error of the TCP
\* connect keep their kind, every exception of the handshake becomes
\* VNCProtocolError
tcp_connect(c, tcp, script, closed, failAt, des) ==
  IF c.connected
    THEN [err |-> "VNCStateError", conn |-> c, fresh |-> FALSE, rest |-> <<>>, out |-> <<>>]
  ELSE IF tcp = "timeout" THEN ConnectRaises(c, "VNCTimeoutError", <<>>)
  ELSE IF tcp = "refused" THEN ConnectRaises(c, "VNCConnectionError", <<>>)
  ELSE Bind(tcp_perform_handshake(script, closed, failAt, des), LAMBDA h :
    IF h.err = "none" THEN Connected(h)
    ELSE ConnectRaises(c, "VNCProtocolError", h.out))

\* the VNC errors WebSocketVNCConnection.connect re-raises as they are:
\* VNCConnectionError with its subclass VNCAuthenticationError,
\* VNCTimeoutError, VNCProtocolError
Reraised == {"VNCConnectionError", "VNCAuthenticationError", "VNCTimeoutError",
             "VNCProtocolError"}

\* the constructor arguments _substitute_url_template reads: the placeholders
\* the template names, ticket and vnc_port (<<>> is None); host and host_port
\* are mandatory arguments
Url(template, ticket, vnc_port) ==
  [template |-> template, ticket |-> ticket, vnc_port |-> vnc_port]
\* str(value) or quote(value or "") is the empty string
no_value(url, placeholder) ==
  CASE placeholder = "host" -> FALSE
    [] placeholder = "host_port" -> FALSE
    [] placeholder = "vnc_port" -> url.vnc_port = <<>>
    [] placeholder = "ticket" -> url.ticket = <<>> \/ url.ticket = << <<>> >>
\* the placeholders the validation loop looks for
required_placeholders == {"host", "host_port", "vnc_port", "ticket"}
\* _substitute_url_template: the error it raises, "none" if it returns a URL
substitute_url_template(url) ==
  IF \E placeholder \in required_placeholders :
       placeholder \in url.template /\ no_value(url, placeholder)
    THEN "ValueError" ELSE "none"

\* WebSocketVNCConnection.connect: a failed create_connection (or a missing
\* websocket-client) is a VNCConnectionError
ws_connect(c, url, tcp, script, closed, failAt, des) ==
  IF c.connected
    THEN [err |-> "VNCStateError", conn |-> c, fresh |-> FALSE, rest |-> <<>>, out |-> <<>>]
  ELSE IF substitute_url_template(url) # "none"
    THEN ConnectRaises(c, IF substitute_url_template(url) \in Reraised
                            THEN substitute_url_template(url) ELSE "VNCConnectionError",
                       <<>>)
  ELSE IF tcp # "ok" THEN ConnectRaises(c, "VNCConnectionError", <<>>)
  ELSE Bind(ws_perform_handshake(script, closed, failAt, des), LAMBDA h :
    IF h.err = "none" THEN Connected(h)
    ELSE ConnectRaises(c, IF h.err \in Reraised THEN h.err ELSE "VNCConnectionError",
                       h.out))


(***************************************************************************)
(* MouseController (core/mouse.py).  A controller state is the record      *)
(* [conn, pos, mask]; a method returns it with the error raised and the    *)
(* PointerEvents written.                                                  *)
(***************************************************************************)
\* the points the caller passes: the corners of the valid range and one
\* point beyond each of its four limits
Points == {<<0, 0>>, <<65535, 65535>>, <<-1, 0>>, <<0, -1>>, <<65536, 0>>, <<0, 65536>>}
\* optional coordinates: <<>> is None
OptPoints == {<< <<>>, <<>> >>, << <<65535>>, <<>> >>}
               \cup {<< <<p[1]>>, <<p[2]>> >> : p \in Points}

\* the button's number (1, 2, 3) in place of its bit
button_number(n) == n + 1

RECURSIVE Pow2(_)
Pow2(n) == IF n = 0 THEN 1 ELSE 2 * Pow2(n - 1)
Bit(n, i) == (n \div Pow2(i)) % 2
\* a | b on 8-bit masks
BitOr(a, b) ==
  LET RECURSIVE Sum(_)
      Sum(i) == IF i < 0 THEN 0
                ELSE (IF Bit(a, i) = 1 \/ Bit(b, i) = 1 THEN Pow2(i) ELSE 0) + Sum(i - 1)
  IN Sum(7)

MouseState == [conn |-> Conn, pos |-> current_position, mask |-> button_mask]
Outcome(st, error, events) ==
  [conn |-> st.conn, pos |-> st.pos, mask |-> st.mask, err |-> error, sent |-> events]

\* a _validate_coordinates without its upper limit
validate_coordinates_lower_only(x, y) ==
  IF x < 0 \/ y < 0 THEN "VNCInputError" ELSE "none"

\* _validate_coordinates: the error it raises, "none" if it returns
validate_coordinates(x, y) ==
  IF x < 0 \/ y < 0 THEN "VNCInputError"
  ELSE IF x > MaxCoordinate \/ y > MaxCoordinate THEN "VNCInputError"
  ELSE "none"

\* _click(button, x, y, delay)
click(st, button, xo, yo, failAt) ==
  IF ~is_connected(st.conn) THEN Outcome(st, "VNCStateError", <<>>)
  ELSE
    LET click_x == IF xo # <<>> THEN xo[1] ELSE st.pos[1]
        click_y == IF yo # <<>> THEN yo[1] ELSE st.pos[2]
        bit == Pow2(button)
        moves == <<click_x, click_y>> # st.pos
        evs == (IF moves THEN <<PointerEv(click_x, click_y, 0)>> ELSE <<>>)
               \o <<PointerEv(click_x, click_y, bit), PointerEv(click_x, click_y, 0)>>
        down == IF moves THEN 2 ELSE 1
        s == send_events(st.conn, evs, failAt)
    IN IF validate_coordinates(click_x, click_y) # "none"
         THEN Outcome(st, validate_coordinates(click_x, click_y), <<>>)
         ELSE [conn |-> s.conn,
               pos |-> IF moves /\ s.n >= 1 THEN <<click_x, click_y>> ELSE st.pos,
               mask |-> IF s.n = Len(evs) THEN 0
                        ELSE IF s.n >= down THEN BitOr(st.mask, bit) ELSE st.mask,
               err |-> s.err,
               sent |-> SubSeq(evs, 1, s.n)]

left_click(st, xo, yo, failAt) == click(st, LEFT, xo, yo, failAt)
right_click(st, xo, yo, failAt) == click(st, RIGHT, xo, yo, failAt)

\* double_click: two _click calls; the second runs only if the first returns
double_click(st, xo, yo, failAt) ==
  LET a == click(st, LEFT, xo, yo, failAt) IN
  IF a.err # "none" THEN a
  ELSE LET b == click([conn |-> a.conn, pos |-> a.pos, mask |-> a.mask], LEFT, xo, yo,
                      IF failAt > Len(a.sent) THEN failAt - Len(a.sent) ELSE 0)
       IN [b EXCEPT !.sent = a.sent \o b.sent]

move_to(st, x, y, failAt) ==
  IF validate_coordinates(x, y) # "none" THEN Outcome(st, validate_coordinates(x, y), <<>>)
  ELSE LET s == send_events(st.conn, <<PointerEv(x, y, 0)>>, failAt) IN
    [conn |-> s.conn, pos |-> IF s.err = "none" THEN <<x, y>> ELSE st.pos,
     mask |-> st.mask, err |-> s.err, sent |-> SubSeq(<<PointerEv(x, y, 0)>>, 1, s.n)]

\* durations of drag_to, in tenths of a second
Durations == {-1, 0, 2}
\* steps = max(1, int(duration * 10))
drag_steps(d10) == IF d10 > 1 THEN d10 ELSE 1
\* int(start + (target - start) * (i / steps)), on coordinates that are >= 0
interpolate(start, target, i, steps) == (start * steps + (target - start) * i) \div steps

\* drag_to(x, y, duration): time.sleep raises ValueError for a negative
\* duration, after the first move event
drag_to(st, x, y, d10, failAt) ==
  IF validate_coordinates(x, y) # "none" THEN Outcome(st, validate_coordinates(x, y), <<>>)
  ELSE
    LET steps == drag_steps(d10)
        held == BitOr(st.mask, Pow2(LEFT))
        path == [i \in 1..(steps + 1) |->
                   PointerEv(interpolate(st.pos[1], x, i - 1, steps),
                             interpolate(st.pos[2], y, i - 1, steps), held)]
        full == <<PointerEv(st.pos[1], st.pos[2], Pow2(LEFT))>> \o path
                  \o <<PointerEv(x, y, 0)>>
        \* a negative sleep ends the call after the button-down and one move
        evs == IF d10 < 0 THEN SubSeq(full, 1, 2) ELSE full
        s == send_events(st.conn, evs, failAt)
    IN [conn |-> s.conn,
        pos |-> IF s.n = Len(full) THEN <<x, y>> ELSE st.pos,
        mask |-> IF s.n = Len(full) THEN 0
                 ELSE IF s.n >= 1 THEN held ELSE st.mask,
        err |-> IF s.err # "none" THEN s.err
                ELSE IF d10 < 0 THEN "ValueError" ELSE "none",
        sent |-> SubSeq(evs, 1, s.n)]

(***************************************************************************)
(* ScrollController (core/scroll.py).  It shares the connection and keeps  *)
(* no state of its own.                                                    *)
(***************************************************************************)
Amounts == {-1, 0, 2}
\* scroll_to's default number of steps
ScrollToSteps == 3

\* _send_scroll_event(direction)
scroll_event(direction) == PointerEv(0, 0, direction)

\* scroll_up / scroll_down(amount)
scroll(st, direction, amount, failAt) ==
  IF ~is_connected(st.conn) THEN Outcome(st, "VNCStateError", <<>>)
  ELSE IF amount < 0 THEN Outcome(st, "VNCInputError", <<>>)
  ELSE LET evs == [i \in 1..amount |-> scroll_event(direction)]
           s == send_events(st.conn, evs, failAt)
       IN [conn |-> s.conn, pos |-> st.pos, mask |-> st.mask, err |-> s.err,
           sent |-> SubSeq(evs, 1, s.n)]

scroll_up(st, amount, failAt) == scroll(st, UP, amount, failAt)
scroll_down(st, amount, failAt) == scroll(st, DOWN, amount, failAt)

scroll_to(st, x, y, failAt) ==
  IF ~is_connected(st.conn) THEN Outcome(st, "VNCStateError", <<>>)
  ELSE IF validate_coordinates(x, y) # "none"
    THEN Outcome(st, validate_coordinates(x, y), <<>>)
  ELSE LET m == send_events(st.conn, <<PointerEv(x, y, 0)>>, failAt) IN
    IF m.err # "none"
      THEN [conn |-> m.conn, pos |-> st.pos, mask |-> st.mask, err |-> m.err, sent |-> <<>>]
      ELSE LET d == scroll_down([st EXCEPT !.conn = m.conn], ScrollToSteps,
                                IF failAt > 1 THEN failAt - 1 ELSE 0)
           IN [d EXCEPT !.sent = <<PointerEv(x, y, 0)>> \o d.sent]

(***************************************************************************)
(* KeyboardController (core/keyboard.py).  A key argument is a record:     *)
(* a name of several characters, a single character (its code point) or    *)
(* an int.  A text is the sequence of its characters' code points.         *)
(***************************************************************************)
NameKey(n) == [kind |-> "name", name |-> n, code |-> 0]
CharKey(cp) == [kind |-> "char", name |-> "", code |-> cp]
IntKey(k) == [kind |-> "int", name |-> "", code |-> k]

\* the entries of KEY_CODES and MODIFIER_KEYS the model uses
KeyNames == {"ctrl", "shift", "enter"}
KEY_CODES == [n \in KeyNames |->
                CASE n = "ctrl" -> 65507 [] n = "shift" -> 65505 [] n = "enter" -> 65293]
MODIFIER_KEYS == {"ctrl", "shift"}
Keys == {NameKey("ctrl"), NameKey("enter"), NameKey("bogus"), CharKey(97)}
Texts == {<<>>, <<97>>, <<97, 8364>>, <<8364, 97>>}

\* _get_keycode: <<>> is None, else <<keysym>>
get_keycode(key) ==
  IF key.kind = "int" THEN <<key.code>>
  ELSE IF key.kind = "char" THEN <<key.code>>
  ELSE IF key.name \in DOMAIN KEY_CODES THEN <<KEY_CODES[key.name]>> ELSE <<>>

RECURSIVE type_events(_)
\* the KeyEvents type_text writes for the characters it reaches
type_events(text) ==
  IF text = <<>> THEN <<>>
  ELSE IF get_keycode(CharKey(Head(text))) = <<>> THEN <<>>
  ELSE <<KeyEv(get_keycode(CharKey(Head(text)))[1], TRUE),
         KeyEv(get_keycode(CharKey(Head(text)))[1], FALSE)>> \o type_events(Tail(text))

type_text(st, text, failAt) ==
  IF ~is_connected(st.conn) THEN Outcome(st, "VNCStateError", <<>>)
  ELSE IF text = <<>> THEN Outcome(st, "VNCInputError", <<>>)
  ELSE LET evs == type_events(text)
           s == send_events(st.conn, evs, failAt)
       IN [conn |-> s.conn, pos |-> st.pos, mask |-> st.mask,
           err |-> IF s.err # "none" THEN s.err
                   ELSE IF Len(evs) < 2 * Len(text) THEN "VNCInputError" ELSE "none",
           sent |-> SubSeq(evs, 1, s.n)]

press_key(st, key, failAt) ==
  IF ~is_connected(st.conn) THEN Outcome(st, "VNCStateError", <<>>)
  ELSE IF get_keycode(key) = <<>> THEN Outcome(st, "VNCInputError", <<>>)
  ELSE LET evs == <<KeyEv(get_keycode(key)[1], TRUE), KeyEv(get_keycode(key)[1], FALSE)>>
           s == send_events(st.conn, evs, failAt)
       IN [conn |-> s.conn, pos |-> st.pos, mask |-> st.mask, err |-> s.err,
           sent |-> SubSeq(evs, 1, s.n)]

keydown(st, key, failAt) ==
  IF ~is_connected(st.conn) THEN Outcome(st, "VNCStateError", <<>>)
  ELSE IF get_keycode(key) = <<>> THEN Outcome(st, "VNCInputError", <<>>)
  ELSE LET evs == <<KeyEv(get_keycode(key)[1], TRUE)>>
           s == send_events(st.conn, evs, failAt)
       IN [conn |-> s.conn, pos |-> st.pos, mask |-> st.mask, err |-> s.err,
           sent |-> SubSeq(evs, 1, s.n)]

\* a keyup that writes a key-down
keyup_pressed(st, key, failAt) == keydown(st, key, failAt)

\* keyup has no is_connected test of its own: send_key_event validates
keyup(st, key, failAt) ==
  IF get_keycode(key) = <<>> THEN Outcome(st, "VNCInputError", <<>>)
  ELSE LET evs == <<KeyEv(get_keycode(key)[1], FALSE)>>
           s == send_events(st.conn, evs, failAt)
       IN [conn |-> s.conn, pos |-> st.pos, mask |-> st.mask, err |-> s.err,
           sent |-> SubSeq(evs, 1, s.n)]

\* the argument lists of hotkey the model draws
HotkeyArgs ==
  {<<>>, <<NameKey("ctrl")>>,
   <<NameKey("ctrl"), CharKey(97)>>, <<NameKey("ctrl"), NameKey("bogus")>>,
   <<NameKey("bogus"), CharKey(97)>>, <<CharKey(97), NameKey("ctrl")>>,
   <<NameKey("enter"), CharKey(97)>>,
   <<NameKey("ctrl"), NameKey("shift"), CharKey(97)>>,
   <<NameKey("ctrl"), NameKey("shift"), NameKey("bogus")>>}
\* the name a key in a modifier position is compared by: key.lower() or str(key)
modifier_name(key) == IF key.kind = "name" THEN key.name ELSE "not a name"
\* the modifiers released in the order they were pressed
same_order(q) == q
reverse(q) == [i \in 1..Len(q) |-> q[Len(q) + 1 - i]]

hotkey(st, keys, failAt) ==
  IF ~is_connected(st.conn) THEN Outcome(st, "VNCStateError", <<>>)
  ELSE IF Len(keys) < 2 THEN Outcome(st, "VNCInputError", <<>>)
  ELSE
    LET mods == SubSeq(keys, 1, Len(keys) - 1)
        main_key == keys[Len(keys)]
        downs == [i \in 1..Len(mods) |-> KeyEv(get_keycode(mods[i])[1], TRUE)]
        ups == [i \in 1..Len(mods) |-> KeyEv(get_keycode(mods[i])[1], FALSE)]
        evs == downs \o <<KeyEv(get_keycode(main_key)[1], TRUE),
                          KeyEv(get_keycode(main_key)[1], FALSE)>> \o reverse(ups)
        s == send_events(st.conn, evs, failAt)
    IN IF \E i \in 1..Len(mods) : modifier_name(mods[i]) \notin MODIFIER_KEYS
         THEN Outcome(st, "VNCInputError", <<>>)
       ELSE IF \E i \in 1..Len(mods) : get_keycode(mods[i]) = <<>>
         THEN Outcome(st, "VNCInputError", <<>>)
       ELSE IF get_keycode(main_key) = <<>> THEN Outcome(st, "VNCInputError", <<>>)
       ELSE [conn |-> s.conn, pos |-> st.pos, mask |-> st.mask, err |-> s.err,
             sent |-> SubSeq(evs, 1, s.n)]

(***************************************************************************)
(* ClipboardController (core/clipboard.py).  A method returns the          *)
(* connection, the cache, the stream left, the error, the text returned    *)
(* and the messages written.                                               *)
(***************************************************************************)
ClipTexts == {<<>>, <<97>>, <<8364>>}
Timeouts == {-1, 5}
CutTextEv(text) == Ev("cuttext", Len(text), IF text = <<>> THEN 0 ELSE text[1], 0)
\* text.encode("latin-1") succeeds
latin1(text) == \A i \in 1..Len(text) : text[i] <= 255

send_text(c, cache, text, failAt) ==
  IF text = <<>> THEN [conn |-> c, cache |-> cache, err |-> "VNCInputError", sent |-> <<>>]
  ELSE IF ~latin1(text)
    THEN [conn |-> c, cache |-> cache, err |-> "VNCInputError", sent |-> <<>>]
  ELSE LET s == send_events(c, <<CutTextEv(text)>>, failAt) IN
    [conn |-> s.conn, cache |-> IF s.err = "none" THEN <<text>> ELSE cache,
     err |-> s.err, sent |-> SubSeq(<<CutTextEv(text)>>, 1, s.n)]

clear(c, cache, failAt) ==
  LET s == send_events(c, <<CutTextEv(<<>>)>>, failAt) IN
  [conn |-> s.conn, cache |-> IF s.err = "none" THEN <<>> ELSE cache,
   err |-> s.err, sent |-> SubSeq(<<CutTextEv(<<>>)>>, 1, s.n)]

get_text(c, cache, buf, closed, timeout) ==
  IF timeout < 0
    THEN [conn |-> c, cache |-> cache, rest |-> buf, err |-> "VNCInputError", text |-> <<>>]
  ELSE Bind(receive_clipboard_text(c, buf, closed), LAMBDA r :
    [conn |-> r.conn, cache |-> IF r.text # <<>> THEN r.text ELSE cache,
     rest |-> r.rest, err |-> r.err, text |-> r.text])

\* a has_text that only tests the cache for None
has_text_not_none(cache) == cache # <<>>

has_text(cache) == cache # <<>> /\ Len(cache[1]) > 0

(***************************************************************************)
(* FramebufferManager and ScreenshotController (core/framebuffer.py,       *)
(* core/screenshot.py).  The server messages of the model carry no raw     *)
(* rectangle, so process_update has nothing to write into the raster.      *)
(***************************************************************************)
FbRequestEv(incremental, width, height) ==
  Ev("fbrequest", IF incremental THEN 1 ELSE 0, width, height)

\* request_update(incremental): the full configured screen
request_update(c, incremental, failAt) ==
  send_events(c, <<FbRequestEv(incremental, DefaultWidth, DefaultHeight)>>, failAt)

\* process_update(rectangles) on a framebuffer whose buffer is or is not allocated
process_update(allocated, rects) ==
  IF ~allocated THEN "RuntimeError" ELSE "none"

\* the second half of capture(): read one update, apply it, copy the buffer
capture_read(c, buf, closed, allocated) ==
  Bind(read_framebuffer_update(c, buf, closed), LAMBDA r :
    IF r.err # "none"
      THEN [conn |-> r.conn, rest |-> r.rest, err |-> r.err, dirty |-> FALSE]
      ELSE [conn |-> r.conn, rest |-> r.rest, err |-> process_update(allocated, r.rects),
            dirty |-> process_update(allocated, r.rects) = "none"])

\* capture(incremental)
capture(c, buf, closed, allocated, incremental, failAt) ==
  Bind(request_update(c, incremental, failAt), LAMBDA q :
    IF q.err # "none"
      THEN [conn |-> q.conn, rest |-> buf, err |-> q.err, dirty |-> FALSE, sent |-> <<>>]
      ELSE Bind(capture_read(q.conn, buf, closed, allocated), LAMBDA r :
        [conn |-> r.conn, rest |-> r.rest, err |-> r.err, dirty |-> r.dirty,
         sent |-> <<FbRequestEv(incremental, DefaultWidth, DefaultHeight)>>]))

(***************************************************************************)
(* The environment: the server and the network.                            *)
(***************************************************************************)
\* FramebufferUpdate with no rectangle
FBU0 == <<0, 0, 0, 0>>
\* Bell
BELL == <<2>>
\* ServerCutText "a" in the layout receive_clipboard_text reads
CUT_A == <<3, 0, 0, 0, 0, 1, 97>>
\* FramebufferUpdate with one rectangle of encoding 1 (CopyRect)
FBU_COPYRECT == <<0, 0, 0, 1, 0, 0, 0, 0, 0, 1, 0, 1, 0, 0, 0, 1>>
\* ServerCutText with a text of length 0
CUT_EMPTY == <<3, 0, 0, 0, 0, 0>>
ServerMessages == {FBU0, BELL, CUT_A, CUT_EMPTY, FBU_COPYRECT}

\* what the server sends during connect()
HS_NONE == PROTOCOL_VERSION \o <<0, 0, 0, 1>>
HS_NONE_FBU == PROTOCOL_VERSION \o <<0, 0, 0, 1>> \o FBU0
HS_VNCAUTH == PROTOCOL_VERSION \o <<0, 0, 0, 2>>
HS_REFUSED == PROTOCOL_VERSION \o <<0, 0, 0, 0, 0, 0, 0, 1, 120>>
HS_OLD == <<82, 70, 66, 32, 48, 48, 51, 46, 48, 48, 51, 10>> \o <<0, 0, 0, 1>>
HS_RFB38 == PROTOCOL_VERSION \o <<1, 1>>
HandshakeScripts == {HS_NONE, HS_NONE_FBU, HS_VNCAUTH, HS_REFUSED, HS_OLD, HS_RFB38, <<>>}
TcpOutcomes == {"ok", "timeout", "refused"}
FailAts == 0..MaxFailAt
\* how a connect() can go: the TCP connect fails, or the server sends a
\* script and one of the client's writes may fail
ConnectInputs == {<<"timeout", <<>>, 0>>, <<"refused", <<>>, 0>>}
                   \cup ({"ok"} \X HandshakeScripts \X FailAts)

\* a closed socket has no stream
stream(c, buf) == IF c.socket = "none" THEN <<>> ELSE buf
closing(c, closed) == IF c.socket = "none" THEN FALSE ELSE closed

ServerSend ==
  /\ socket = "open"
  /\ \E m \in ServerMessages :
       /\ inbuf = <<>> \/ Len(inbuf) + Len(m) <= MaxInbuf
       /\ ~peerClosed
       /\ inbuf' = inbuf \o m
  /\ actor' = "server"
  /\ UNCHANGED <<socket, connected, peerClosed, fb_buffer, fb_dirty, should_stop,
                 is_recording, frames, frame_count, recording_thread, workers,
                 callerPc, loc, inputVars, lastCall>>

\* the server answers an update request
ServerUpdate ==
  /\ socket = "open"
  /\ ~peerClosed
  /\ Len(inbuf) + Len(FBU0) <= MaxInbuf
  /\ inbuf' = inbuf \o FBU0
  /\ actor' = "server"
  /\ UNCHANGED <<socket, connected, peerClosed, fb_buffer, fb_dirty, should_stop,
                 is_recording, frames, frame_count, recording_thread, workers,
                 callerPc, loc, inputVars, lastCall>>

ServerClose ==
  /\ socket = "open"
  /\ ~peerClosed
  /\ peerClosed' = TRUE
  /\ actor' = "server"
  /\ UNCHANGED <<socket, connected, inbuf, fb_buffer, fb_dirty, should_stop,
                 is_recording, frames, frame_count, recording_thread, workers,
                 callerPc, loc, inputVars, lastCall>>

(***************************************************************************)
(* The caller's last call.                                                 *)
(***************************************************************************)
Call(name, arguments, error, value, events, frs) ==
  /\ op' = name
  /\ args' = arguments
  /\ err' = error
  /\ ret' = value
  /\ sent' = events
  /\ result' = frs
  /\ actor' = "caller"

SetConn(c) ==
  /\ socket' = c.socket
  /\ connected' = c.connected

(***************************************************************************)
(* VNCAgentBridge (core/bridge.py).                                        *)
(***************************************************************************)
\* a running worker keeps the recorder and framebuffer the Facade drops
orphaned(w) ==
  IF w.pc \in {"unused", "done"} \/ w.orphan THEN w
  ELSE [pc |-> w.pc, frame_num |-> 0, orphan |-> TRUE, stop |-> should_stop,
        alloc |-> fb_buffer, told |-> FALSE]

\* connect(): the connection's connect, then the controllers; the capture
\* objects only when their modules import
bridge_connect(r) ==
  /\ SetConn(r.conn)
  /\ inbuf' = IF r.fresh THEN stream(r.conn, r.rest) ELSE inbuf
  /\ peerClosed' = IF r.fresh THEN FALSE ELSE peerClosed
  /\ IF r.err = "none"
       THEN /\ current_position' = <<0, 0>>
            /\ button_mask' = 0
            /\ IF capture_deps
                 THEN /\ bridge' = [mouse |-> TRUE, keyboard |-> TRUE, scroll |-> TRUE,
                                    framebuffer |-> TRUE, screenshot |-> TRUE,
                                    video |-> TRUE]
                      /\ fb_buffer' = FALSE
                      /\ fb_dirty' = FALSE
                      /\ should_stop' = FALSE
                      /\ is_recording' = FALSE
                      /\ frames' = <<>>
                      /\ frame_count' = 0
                      /\ recording_thread' = 0
                      /\ workers' = [w \in DOMAIN workers |-> orphaned(workers[w])]
                 ELSE /\ bridge' = [bridge EXCEPT !.mouse = TRUE, !.keyboard = TRUE,
                                                  !.scroll = TRUE]
                      /\ UNCHANGED <<fb_buffer, fb_dirty, should_stop, is_recording,
                                     frames, frame_count, recording_thread, workers>>
       ELSE UNCHANGED <<bridge, current_position, button_mask, fb_buffer, fb_dirty,
                        should_stop, is_recording, frames, frame_count, recording_thread,
                        workers>>
  /\ UNCHANGED <<cached_content, capture_deps, transport, engineVars, callerPc, loc>>

\* a disconnect() that closes the connection and keeps the controllers
bridge_disconnect_keeping_controllers ==
  /\ SetConn(conn_disconnect(Conn))
  /\ inbuf' = <<>>
  /\ peerClosed' = FALSE
  /\ UNCHANGED <<bridge, current_position, button_mask, fb_buffer, fb_dirty, should_stop,
                 is_recording, frames, frame_count, recording_thread, workers,
                 cached_content, capture_deps, transport, engineVars, callerPc, loc>>

\* disconnect(): the connection's disconnect, then every reference cleared;
\* the fields of objects nothing refers to are held at their initial values
bridge_disconnect ==
  /\ SetConn(conn_disconnect(Conn))
  /\ inbuf' = <<>>
  /\ peerClosed' = FALSE
  /\ bridge' = NoBridge
  /\ current_position' = <<0, 0>>
  /\ button_mask' = 0
  /\ fb_buffer' = FALSE
  /\ fb_dirty' = FALSE
  /\ should_stop' = FALSE
  /\ is_recording' = FALSE
  /\ frames' = <<>>
  /\ frame_count' = 0
  /\ recording_thread' = 0
  /\ workers' = [w \in DOMAIN workers |-> orphaned(workers[w])]
  /\ UNCHANGED <<cached_content, capture_deps, transport, engineVars, callerPc, loc>>

\* the properties mouse, keyboard, scroll, screenshot, video
bridge_property(b, p) ==
  CASE p = "mouse" -> IF ~b.mouse THEN "RuntimeError" ELSE "none"
    [] p = "keyboard" -> IF ~b.keyboard THEN "RuntimeError" ELSE "none"
    [] p = "scroll" -> IF ~b.scroll THEN "RuntimeError" ELSE "none"
    [] p = "screenshot" -> IF ~b.screenshot THEN "VNCStateError" ELSE "none"
    [] p = "video" -> IF ~b.video THEN "VNCStateError" ELSE "none"
Properties == {"mouse", "keyboard", "scroll", "screenshot", "video"}

\* __enter__: connect(); the with statement runs the body only if it returns
bridge_enter(r) ==
  /\ bridge_connect(r)
  /\ scope' = IF r.err = "none"
                THEN [state |-> "body", disconnects |-> 0]
                ELSE scope

\* an __exit__ that disconnects only when the body raised nothing
bridge_exit_unless_raised(exc) ==
  /\ IF exc = "none"
       THEN bridge_disconnect
       ELSE UNCHANGED <<socket, connected, inbuf, peerClosed, bridge, current_position,
                        button_mask, fb_buffer, fb_dirty, should_stop, is_recording,
                        frames, frame_count, recording_thread, workers, cached_content,
                        capture_deps, transport, engineVars, callerPc, loc>>
  /\ scope' = [state |-> "out",
               disconnects |-> scope.disconnects + (IF exc = "none" THEN 1 ELSE 0)]
  /\ Call("__exit__", <<exc>>, exc, "None", <<>>, <<>>)

\* __exit__(exc_type, ...): disconnect(); returns None, so exc propagates
bridge_exit(exc) ==
  /\ bridge_disconnect
  /\ scope' = [state |-> "out", disconnects |-> scope.disconnects + 1]
  /\ Call("__exit__", <<exc>>, exc, "None", <<>>, <<>>)

Connect ==
  /\ callerPc = "idle"
  /\ \E a \in ConnectInputs :
     LET tcp == a[1]  script == a[2]  failAt == a[3] IN
       \E r \in {conn_connect(Conn, tcp, script, failAt)} :
         /\ bridge_connect(r)
         /\ linked' = (linked \/ r.err = "none")
         /\ Call("connect", <<>>, r.err, "None", r.out, <<>>)
  /\ UNCHANGED scope

Disconnect ==
  /\ callerPc = "idle"
  /\ bridge_disconnect
  /\ linked' = FALSE
  /\ Call("disconnect", <<>>, "none", "None", <<>>, <<>>)
  /\ UNCHANGED scope

Access ==
  /\ callerPc = "idle"
  /\ \E p \in Properties :
       Call(p, <<>>, bridge_property(bridge, p),
            IF bridge_property(bridge, p) = "none" THEN "controller" ELSE "None",
            <<>>, <<>>)
  /\ UNCHANGED <<socket, connected, inbuf, peerClosed, linked, bridge, current_position,
                 button_mask, cached_content, fb_buffer, fb_dirty, should_stop,
                 is_recording, frames, frame_count, recording_thread, workers,
                 capture_deps, transport, engineVars, callerPc, loc, scope>>

\* with VNCAgentBridge(...) as vnc: entry
WithEnter ==
  /\ callerPc = "idle"
  /\ scope.state = "out"
  /\ \E a \in ConnectInputs :
     LET tcp == a[1]  script == a[2]  failAt == a[3] IN
       \E r \in {conn_connect(Conn, tcp, script, failAt)} :
         /\ bridge_enter(r)
         /\ linked' = (linked \/ r.err = "none")
         /\ Call("__enter__", <<>>, r.err, "None", r.out, <<>>)

\* the body ends: normally or by return (no exception), or by raising
BodyExits == {"none", "ValueError"}
WithExit ==
  /\ callerPc = "idle"
  /\ scope.state = "body"
  /\ \E exc \in BodyExits : bridge_exit(exc)
  /\ linked' = FALSE

(***************************************************************************)
(* The caller's calls on the controllers.                                  *)
(***************************************************************************)
\* the state a mouse, scroll or keyboard method leaves
Leave(name, arguments, outcome) ==
  /\ \E o \in {outcome} :
       /\ SetConn(o.conn)
       /\ inbuf' = stream(o.conn, inbuf)
       /\ peerClosed' = closing(o.conn, peerClosed)
       /\ current_position' = o.pos
       /\ button_mask' = o.mask
       /\ Call(name, arguments, o.err, "None", o.sent, <<>>)
  /\ UNCHANGED <<linked, bridge, cached_content, fb_buffer, fb_dirty, should_stop,
                 is_recording, frames, frame_count, recording_thread, workers,
                 capture_deps, transport, engineVars, callerPc, loc, scope>>

LeftClick ==
  /\ callerPc = "idle"
  /\ bridge.mouse
  /\ \E p \in OptPoints, failAt \in FailAts :
       Leave("left_click", p, left_click(MouseState, p[1], p[2], failAt))

RightClick ==
  /\ callerPc = "idle"
  /\ bridge.mouse
  /\ \E p \in OptPoints, failAt \in FailAts :
       Leave("right_click", p, right_click(MouseState, p[1], p[2], failAt))

DoubleClick ==
  /\ callerPc = "idle"
  /\ bridge.mouse
  /\ \E p \in OptPoints, failAt \in FailAts :
       Leave("double_click", p, double_click(MouseState, p[1], p[2], failAt))

MoveTo ==
  /\ callerPc = "idle"
  /\ bridge.mouse
  /\ \E p \in Points, failAt \in FailAts :
       Leave("move_to", p, move_to(MouseState, p[1], p[2], failAt))

DragTo ==
  /\ callerPc = "idle"
  /\ bridge.mouse
  /\ \E p \in Points, d10 \in Durations, failAt \in FailAts :
       Leave("drag_to", <<p[1], p[2], d10>>, drag_to(MouseState, p[1], p[2], d10, failAt))

ScrollUp ==
  /\ callerPc = "idle"
  /\ bridge.scroll
  /\ \E amount \in Amounts, failAt \in FailAts :
       Leave("scroll_up", <<amount>>, scroll_up(MouseState, amount, failAt))

ScrollDown ==
  /\ callerPc = "idle"
  /\ bridge.scroll
  /\ \E amount \in Amounts, failAt \in FailAts :
       Leave("scroll_down", <<amount>>, scroll_down(MouseState, amount, failAt))

ScrollTo ==
  /\ callerPc = "idle"
  /\ bridge.scroll
  /\ \E p \in Points, failAt \in FailAts :
       Leave("scroll_to", p, scroll_to(MouseState, p[1], p[2], failAt))

TypeText ==
  /\ callerPc = "idle"
  /\ bridge.keyboard
  /\ \E text \in Texts, failAt \in FailAts :
       Leave("type_text", <<text>>, type_text(MouseState, text, failAt))

PressKey ==
  /\ callerPc = "idle"
  /\ bridge.keyboard
  /\ \E key \in Keys, failAt \in FailAts :
       Leave("press_key", <<key>>, press_key(MouseState, key, failAt))

KeyDown ==
  /\ callerPc = "idle"
  /\ bridge.keyboard
  /\ \E key \in Keys, failAt \in FailAts :
       Leave("keydown", <<key>>, keydown(MouseState, key, failAt))

KeyUp ==
  /\ callerPc = "idle"
  /\ bridge.keyboard
  /\ \E key \in Keys, failAt \in FailAts :
       Leave("keyup", <<key>>, keyup(MouseState, key, failAt))

Hotkey ==
  /\ callerPc = "idle"
  /\ bridge.keyboard
  /\ \E keys \in HotkeyArgs, failAt \in FailAts :
       Leave("hotkey", keys, hotkey(MouseState, keys, failAt))

\* the state a clipboard method leaves
LeaveClip(name, arguments, c, cache, buf, error, value, events) ==
  /\ SetConn(c)
  /\ inbuf' = stream(c, buf)
  /\ peerClosed' = closing(c, peerClosed)
  /\ cached_content' = cache
  /\ Call(name, arguments, error, value, events, <<>>)
  /\ UNCHANGED <<linked, bridge, current_position, button_mask, fb_buffer, fb_dirty,
                 should_stop, is_recording, frames, frame_count, recording_thread,
                 workers, capture_deps, transport, engineVars, callerPc, loc, scope>>

SendText ==
  /\ callerPc = "idle"
  /\ \E text \in ClipTexts, failAt \in FailAts :
       \E o \in {send_text(Conn, cached_content, text, failAt)} :
          LeaveClip("send_text", <<text>>, o.conn, o.cache, inbuf, o.err, "None", o.sent)

Clear ==
  /\ callerPc = "idle"
  /\ \E failAt \in FailAts :
       \E o \in {clear(Conn, cached_content, failAt)} :
          LeaveClip("clear", <<>>, o.conn, o.cache, inbuf, o.err, "None", o.sent)

GetText ==
  /\ callerPc = "idle"
  /\ \E timeout \in Timeouts :
       \E o \in {get_text(Conn, cached_content, inbuf, peerClosed, timeout)} :
          LeaveClip("get_text", <<timeout>>, o.conn, o.cache, o.rest, o.err,
                    IF o.text = <<>> THEN "None" ELSE "text", <<>>)

HasText ==
  /\ callerPc = "idle"
  /\ LeaveClip("has_text", <<>>, Conn, cached_content, inbuf, "none",
               IF has_text(cached_content) THEN "True" ELSE "False", <<>>)

\* vnc.framebuffer.initialize_buffer()
InitializeBuffer ==
  /\ callerPc = "idle"
  /\ bridge.framebuffer
  /\ fb_buffer' = TRUE
  /\ fb_dirty' = FALSE
  /\ Call("initialize_buffer", <<>>, "none", "None", <<>>, <<>>)
  /\ UNCHANGED <<socket, connected, inbuf, peerClosed, linked, bridge, current_position,
                 button_mask, cached_content, should_stop, is_recording, frames,
                 frame_count, recording_thread, workers, capture_deps, transport, engineVars,
                 callerPc, loc, scope>>

\* vnc.screenshot.capture(incremental)
Capture ==
  /\ callerPc = "idle"
  /\ bridge.screenshot
  /\ \E incremental \in BOOLEAN, failAt \in FailAts :
       \E o \in {capture(Conn, inbuf, peerClosed, fb_buffer, incremental, failAt)} :
          /\ SetConn(o.conn)
          /\ inbuf' = stream(o.conn, o.rest)
          /\ peerClosed' = closing(o.conn, peerClosed)
          /\ fb_dirty' = (fb_dirty \/ o.dirty)
          /\ Call("capture", <<incremental>>, o.err, IF o.err = "none" THEN "array" ELSE "None", o.sent, <<>>)
  /\ UNCHANGED <<linked, bridge, current_position, button_mask, cached_content, fb_buffer,
                 should_stop, is_recording, frames, frame_count, recording_thread,
                 workers, capture_deps, transport, engineVars, callerPc, loc, scope>>

(***************************************************************************)
(* VideoRecorder (core/video.py).  A frame is its frame_number; a frame     *)
(* list is the sequence of those numbers.  The caller reaches the recorder *)
(* as vnc.video.                                                           *)
(***************************************************************************)
\* frames per second and durations the caller passes
Fps == {0, 30}
RecordDurations == {0, 1}

\* the worker slot a new Thread object takes
FreeWorkers == {w \in DOMAIN workers : workers[w].pc \in {"unused", "done"}}
\* the threads running _recording_worker
Alive == {w \in DOMAIN workers : workers[w].pc \in {"top", "read"}}
\* those of the Facade's own recorder
AliveHere == {w \in Alive : ~workers[w].orphan}

\* what start_recording raises
start_recording_error(fps) ==
  IF is_recording THEN "VNCStateError"
  ELSE IF fps <= 0 THEN "VNCInputError"
  ELSE IF ~is_connected(Conn) THEN "VNCStateError"
  ELSE "none"

\* start_recording(fps): reset the recorder's fields, start a thread
StartRecording ==
  /\ callerPc = "idle"
  /\ bridge.video
  /\ FreeWorkers # {}
  /\ \E fps \in Fps :
       /\ IF start_recording_error(fps) = "none"
            THEN LET w == CHOOSE v \in FreeWorkers : \A u \in FreeWorkers : v <= u IN
                 /\ frames' = <<>>
                 /\ frame_count' = 0
                 /\ should_stop' = FALSE
                 /\ is_recording' = TRUE
                 /\ recording_thread' = w
                 /\ workers' = [workers EXCEPT ![w] = [NoWorker EXCEPT !.pc = "top"]]
            ELSE UNCHANGED <<frames, frame_count, should_stop, is_recording,
                             recording_thread, workers>>
       /\ Call("start_recording", <<fps>>, start_recording_error(fps), "None", <<>>, <<>>)
  /\ UNCHANGED <<socket, connected, inbuf, peerClosed, fb_buffer, fb_dirty, callerPc,
                 loc, inputVars>>

\* stop_recording() up to the join: the flag is raised, or the call raises
StopRecording ==
  /\ callerPc = "idle"
  /\ bridge.video
  /\ IF ~is_recording
       THEN /\ Call("stop_recording", <<>>, "VNCStateError", "None", <<>>, <<>>)
            /\ UNCHANGED <<should_stop, workers, callerPc>>
       ELSE /\ should_stop' = TRUE
            /\ workers' = [workers EXCEPT ![recording_thread].told = TRUE]
            /\ callerPc' = "joining"
            /\ Call("stop_recording", <<>>, "none", "running", <<>>, <<>>)
  /\ UNCHANGED <<socket, connected, inbuf, peerClosed, fb_buffer, fb_dirty, is_recording,
                 frames, frame_count, recording_thread, loc, inputVars>>

\* join(timeout=10.0) returns: the thread ended, or the ten seconds passed
\* with the thread still asleep or blocked in a read; then the copy of _frames
StopJoined ==
  /\ callerPc = "joining"
  /\ \E timedOut \in BOOLEAN :
       timedOut = (workers[recording_thread].pc # "done")
  /\ is_recording' = FALSE
  /\ callerPc' = "idle"
  /\ Call("stop_recording", <<>>, "none", "frames", <<>>, frames)
  /\ UNCHANGED <<socket, connected, inbuf, peerClosed, fb_buffer, fb_dirty, should_stop,
                 frames, frame_count, recording_thread, workers, loc, inputVars>>

\* the flag and the framebuffer of the recorder worker w belongs to
flag_of(w) == IF workers[w].orphan THEN workers[w].stop ELSE should_stop
buffer_of(w) == IF workers[w].orphan THEN workers[w].alloc ELSE fb_buffer

\* the worker reads the flag at the top of its loop and ends
WorkerExit(w) ==
  /\ workers[w].pc = "top"
  /\ flag_of(w)
  /\ workers' = [workers EXCEPT ![w] = [NoWorker EXCEPT !.pc = "done"]]
  /\ actor' = "worker"
  /\ UNCHANGED <<socket, connected, inbuf, peerClosed, fb_buffer, fb_dirty, should_stop,
                 is_recording, frames, frame_count, recording_thread, callerPc, loc,
                 inputVars, lastCall>>

\* the worker reads the flag, goes on and starts capture(incremental=True):
\* the update request is written; an exception sends it back to the top
WorkerRequest(w) ==
  /\ workers[w].pc = "top"
  /\ ~flag_of(w)
  /\ workers[w].frame_num < MaxFrames
  /\ Len(frames) < MaxFrames
  /\ \E failAt \in {0, 1} :
       \E q \in {request_update(Conn, TRUE, failAt)} :
          /\ SetConn(q.conn)
          /\ inbuf' = stream(q.conn, inbuf)
          /\ peerClosed' = closing(q.conn, peerClosed)
          /\ workers' = [workers EXCEPT ![w].pc = IF q.err = "none" THEN "read" ELSE "top"]
  /\ actor' = "worker"
  /\ UNCHANGED <<fb_buffer, fb_dirty, should_stop, is_recording, frames, frame_count,
                 recording_thread, callerPc, loc, inputVars, lastCall>>

\* the worker reads the update and appends the frame to its recorder's list
WorkerRead(w) ==
  /\ workers[w].pc = "read"
  /\ \E r \in {capture_read(Conn, inbuf, peerClosed, buffer_of(w))} :
       /\ SetConn(r.conn)
       /\ inbuf' = stream(r.conn, r.rest)
       /\ peerClosed' = closing(r.conn, peerClosed)
       /\ IF r.err = "none"
            THEN IF workers[w].orphan
                   THEN /\ workers' = [workers EXCEPT ![w].pc = "top"]
                        /\ UNCHANGED <<frames, frame_count, fb_dirty>>
                   ELSE /\ workers' = [workers EXCEPT ![w].pc = "top",
                                                      ![w].frame_num = @ + 1]
                        /\ frames' = Append(frames, workers[w].frame_num)
                        /\ frame_count' = frame_count + 1
                        /\ fb_dirty' = TRUE
            ELSE /\ workers' = [workers EXCEPT ![w].pc = "top"]
                 /\ UNCHANGED <<frames, frame_count, fb_dirty>>
  /\ actor' = "worker"
  /\ UNCHANGED <<fb_buffer, should_stop, is_recording, recording_thread, callerPc, loc,
                 inputVars, lastCall>>

\* the locals before and after a loop
NoLoop == [frames |-> <<>>, frame_num |-> 0, cond |-> "none"]
\* what condition() does: it returns False or True, or it raises
ConditionOutcomes == {"false", "true", "raises"}

\* a loop body that captures whatever the condition answered, or before it
\* was asked
capture_unconditional(name, cond) == TRUE

\* the loop body reaches its capture: always in record; in record_until when
\* condition() returned False or raised (if condition(): break / except: pass)
reaches_capture(name, cond) ==
  name = "record" \/ (name = "record_until" /\ cond \in {"false", "raises"})

\* the loop is left: by its while test (the time is up), which comes before
\* condition() is called, or by the break of record_until
leaves_loop(name, cond) ==
  name = "record" \/ (name = "record_until" /\ cond \in {"none", "true"})

\* what record and record_until raise before their loop
record_error(duration, fps) ==
  IF duration <= 0 THEN "VNCInputError"
  ELSE IF fps <= 0 THEN "VNCInputError"
  ELSE IF ~is_connected(Conn) THEN "VNCStateError"
  ELSE "none"

\* record(duration, fps) and record_until(condition, max_duration, fps) up
\* to their loop
RecordBegin ==
  /\ callerPc = "idle"
  /\ bridge.video
  /\ \E name \in {"record", "record_until"}, duration \in RecordDurations, fps \in Fps :
       /\ Call(name, <<duration, fps>>, record_error(duration, fps),
               IF record_error(duration, fps) = "none" THEN "running" ELSE "None",
               <<>>, <<>>)
       /\ IF record_error(duration, fps) = "none"
            THEN /\ callerPc' = name
                 /\ loc' = NoLoop
            ELSE UNCHANGED <<callerPc, loc>>
  /\ UNCHANGED <<socket, connected, inbuf, peerClosed, fb_buffer, fb_dirty, should_stop,
                 is_recording, frames, frame_count, recording_thread, workers, inputVars>>

\* record_until, top of a turn of the loop: the time is not up, condition()
\* is called
RecordCondition ==
  /\ callerPc = "record_until"
  /\ loc.cond = "none"
  /\ \E c \in ConditionOutcomes :
       /\ c = "true" \/ Len(loc.frames) < MaxFrames
       /\ loc' = [loc EXCEPT !.cond = c]
  /\ sent' = <<>>
  /\ actor' = "caller"
  /\ UNCHANGED <<socket, connected, inbuf, peerClosed, fb_buffer, fb_dirty, should_stop,
                 is_recording, frames, frame_count, recording_thread, workers, callerPc,
                 inputVars, op, args, err, ret, result>>

\* one turn of the loop: a capture; a frame on success, nothing on an exception
RecordFrame ==
  /\ callerPc \in {"record", "record_until"}
  /\ reaches_capture(callerPc, loc.cond)
  /\ Len(loc.frames) < MaxFrames
  /\ \E failAt \in {0, 1} :
       \E o \in {capture(Conn, inbuf, peerClosed, fb_buffer, TRUE, failAt)} :
          /\ SetConn(o.conn)
          /\ inbuf' = stream(o.conn, o.rest)
          /\ peerClosed' = closing(o.conn, peerClosed)
          /\ fb_dirty' = (fb_dirty \/ o.dirty)
          /\ loc' = IF o.err = "none"
                      THEN [frames |-> Append(loc.frames, loc.frame_num),
                            frame_num |-> loc.frame_num + 1, cond |-> "none"]
                      ELSE [loc EXCEPT !.cond = "none"]
          /\ sent' = o.sent
  /\ actor' = "caller"
  /\ UNCHANGED <<fb_buffer, should_stop, is_recording, frames, frame_count,
                 recording_thread, workers, callerPc, inputVars, op, args, err, ret,
                 result>>

\* the time is up, or the condition holds: the local list is returned
RecordEnd ==
  /\ callerPc \in {"record", "record_until"}
  /\ leaves_loop(callerPc, loc.cond)
  /\ callerPc' = "idle"
  /\ loc' = NoLoop
  /\ ret' = "frames"
  /\ result' = loc.frames
  /\ sent' = <<>>
  /\ actor' = "caller"
  /\ UNCHANGED <<socket, connected, inbuf, peerClosed, fb_buffer, fb_dirty, should_stop,
                 is_recording, frames, frame_count, recording_thread, workers, inputVars,
                 op, args, err>>

(***************************************************************************)
(* A TCPVNCConnection or WebSocketVNCConnection used directly.             *)
(***************************************************************************)
\* what the server sends during connect(): RFB 3.8 with a list of
\* security types, a 16-byte challenge, a 4-byte result and ServerInit
CHALLENGE == [i \in 1..16 |-> 0]
\* ServerInit: width, height, 16 bytes of pixel format, name length, name
SERVER_INIT == <<0, 1, 0, 1>> \o [i \in 1..16 |-> 0] \o <<0, 0, 0, 1, 120>>
HS38_NONE == PROTOCOL_VERSION \o <<1, 1>> \o SERVER_INIT
HS38_BOTH == PROTOCOL_VERSION \o <<2, 2, 1>> \o SERVER_INIT \o FBU0
HS38_AUTH_OK == PROTOCOL_VERSION \o <<1, 2>> \o CHALLENGE \o <<0, 0, 0, 0>> \o SERVER_INIT
HS38_AUTH_REJECTED == PROTOCOL_VERSION \o <<1, 2>> \o CHALLENGE \o <<0, 0, 0, 1>>
HS38_AUTH_REJECTED_OF_TWO ==
  PROTOCOL_VERSION \o <<2, 16, 2>> \o CHALLENGE \o <<0, 0, 1, 0>> \o <<0, 0, 0, 1, 120>>
HS38_REFUSED == PROTOCOL_VERSION \o <<0>> \o <<0, 0, 0, 1, 120>>
HS38_UNSUPPORTED == PROTOCOL_VERSION \o <<1, 16>>
\* twelve bytes that are no version string
HS_GARBAGE == [i \in 1..12 |-> 0] \o <<1, 1>> \o SERVER_INIT
\* "RFB 003.008" without the newline the version string ends in
HS_NO_NEWLINE == SubSeq(PROTOCOL_VERSION, 1, 11) \o <<0>> \o <<1, 1>> \o SERVER_INIT
Handshake38Scripts ==
  {HS38_NONE, HS38_BOTH, HS38_AUTH_OK, HS38_AUTH_REJECTED, HS38_AUTH_REJECTED_OF_TWO,
   HS38_REFUSED, HS38_UNSUPPORTED, HS_OLD, HS_GARBAGE, HS_NO_NEWLINE, HS_RFB38, <<>>}
\* the write of the handshake that fails: none, or one of its four
HandshakeFailAts == 0..4

\* the URL settings of a WebSocketVNCConnection: every placeholder has a
\* value; the ticket or the vnc_port the template names is missing; the
\* template names a placeholder the class does not know
URL_COMPLETE == Url({"host", "host_port", "ticket"}, << <<116>> >>, <<>>)
URL_NO_TICKET == Url({"host", "host_port", "ticket"}, <<>>, <<5900>>)
URL_NO_VNC_PORT == Url({"host", "vnc_port"}, << <<116>> >>, <<>>)
URL_NO_PASSWORD == Url({"host", "host_port", "password"}, <<>>, <<>>)
UrlSettings == {URL_COMPLETE, URL_NO_TICKET, URL_NO_VNC_PORT, URL_NO_PASSWORD}
\* a TCPVNCConnection has no URL
ConnUrls == IF transport = "WebSocketVNCConnection" THEN UrlSettings ELSE {URL_COMPLETE}
\* what the server and the transport do to a connect(); nothing of it is
\* looked at when the URL cannot be built, and the handshake does not read the
\* URL, so that every server script is run with one URL and the other URLs
\* with one server that accepts and one that cannot be reached
ConnInputs(url) ==
  IF transport = "WebSocketVNCConnection" /\ substitute_url_template(url) # "none"
    THEN {<<"ok", <<>>, FALSE, 0, TRUE>>}
  ELSE IF url = URL_COMPLETE
    THEN TcpOutcomes \X Handshake38Scripts \X BOOLEAN \X HandshakeFailAts \X BOOLEAN
    ELSE {<<"ok", HS38_NONE, FALSE, 0, TRUE>>, <<"refused", <<>>, FALSE, 0, TRUE>>}

\* connect() of the connection object
ConnConnect ==
  /\ transport # "VNCConnection"
  /\ callerPc = "idle"
  /\ \E url \in ConnUrls :
     \E a \in ConnInputs(url) :
     LET tcp == a[1]  script == a[2]  closed == a[3]  failAt == a[4]  des == a[5] IN
       \E r \in {IF transport = "TCPVNCConnection"
                   THEN tcp_connect(Conn, tcp, script, closed, failAt, des)
                   ELSE ws_connect(Conn, url, tcp, script, closed, failAt, des)} :
         /\ SetConn(r.conn)
         /\ inbuf' = IF r.fresh THEN stream(r.conn, r.rest) ELSE inbuf
         /\ peerClosed' = IF r.fresh THEN closing(r.conn, closed) ELSE peerClosed
         /\ Call("connect", <<tcp, script, closed, failAt, des, url>>, r.err, "None",
                 r.out, <<>>)
  /\ UNCHANGED <<fb_buffer, fb_dirty, should_stop, is_recording, frames, frame_count,
                 recording_thread, workers, callerPc, loc, inputVars>>

\* disconnect() of the connection object
ConnDisconnect ==
  /\ transport # "VNCConnection"
  /\ callerPc = "idle"
  /\ SetConn(conn_disconnect(Conn))
  /\ inbuf' = <<>>
  /\ peerClosed' = FALSE
  /\ Call("disconnect", <<>>, "none", "None", <<>>, <<>>)
  /\ UNCHANGED <<fb_buffer, fb_dirty, should_stop, is_recording, frames, frame_count,
                 recording_thread, workers, callerPc, loc, inputVars>>

(***************************************************************************)
(* WebSocketVNCConnection._recv_exact (core/connection_websocket.py).      *)
(***************************************************************************)
\* bounds of the receive side
MaxStream == 4
MaxFrameLen == 2
MaxCount == 3
\* the non-empty binary messages the server sends
WsFrames == UNION {[1..n -> {1, 2}] : n \in 1..MaxFrameLen}

RECURSIVE concat(_)
concat(frs) == IF frs = <<>> THEN <<>> ELSE Head(frs) \o concat(Tail(frs))

\* the while loop of _recv_exact: recv() returns the next message until the
\* buffer holds count bytes; with no message left recv() fails
RECURSIVE ws_fill(_, _, _)
ws_fill(buf, frs, count) ==
  IF Len(buf) >= count THEN [st |-> "ok", buf |-> buf, frames |-> frs]
  ELSE IF frs = <<>> THEN [st |-> "failed", buf |-> buf, frames |-> frs]
  ELSE ws_fill(buf \o Head(frs), Tail(frs), count)

\* _recv_exact without the buffer: what is left of the last message is lost
ws_recv_unbuffered(buf, frs, count) ==
  Bind(ws_fill(buf, frs, count), LAMBDA f :
    IF f.st = "ok"
      THEN [st |-> "ok", data |-> SubSeq(f.buf, 1, count), buf |-> <<>>,
            frames |-> f.frames]
      ELSE [st |-> "failed", data |-> <<>>, buf |-> <<>>, frames |-> f.frames])

\* _recv_exact(count): the first count bytes of the filled buffer, the rest
\* stays in _recv_buffer; a failed recv() ends in _cleanup_websocket
ws_recv_exact(buf, frs, count) ==
  Bind(ws_fill(buf, frs, count), LAMBDA f :
    IF f.st = "ok"
      THEN [st |-> "ok", data |-> SubSeq(f.buf, 1, count),
            buf |-> SubSeq(f.buf, count + 1, Len(f.buf)), frames |-> f.frames]
      ELSE [st |-> "failed", data |-> <<>>, buf |-> <<>>, frames |-> f.frames])

\* the error _recv_exact makes of a failed recv(): by the exception's text
ws_recv_error(text) ==
  IF text = "timeout" THEN "VNCTimeoutError" ELSE "VNCConnectionError"

\* the server sends one binary message
WsServerSend ==
  /\ transport = "WebSocketVNCConnection"
  /\ socket = "open"
  /\ ~peerClosed
  /\ \E f \in WsFrames :
       /\ Len(delivered) + Len(f) <= MaxStream
       /\ ws_frames' = Append(ws_frames, f)
       /\ delivered' = delivered \o f
  /\ actor' = "server"
  /\ UNCHANGED <<socket, connected, inbuf, peerClosed, fb_buffer, fb_dirty, should_stop,
                 is_recording, frames, frame_count, recording_thread, workers, callerPc,
                 loc, bridge, current_position, button_mask, cached_content,
                 capture_deps, transport, scope, linked, recv_buffer, returned, raster,
                 lastCall>>

\* _recv_exact(count) of a WebSocketVNCConnection; result is what it returned
WsRecvExact ==
  /\ transport = "WebSocketVNCConnection"
  /\ callerPc = "idle"
  /\ \E count \in 0..MaxCount, text \in {"timeout", "closed"} :
       IF socket = "none"
         THEN /\ Call("recv_exact", <<count>>, "VNCConnectionError", "None", <<>>, <<>>)
              /\ UNCHANGED <<socket, connected, ws_frames, recv_buffer, returned>>
         ELSE \E r \in {ws_recv_exact(recv_buffer, ws_frames, count)} :
              /\ recv_buffer' = r.buf
              /\ ws_frames' = r.frames
              /\ returned' = returned \o r.data
              /\ IF r.st = "ok"
                   THEN /\ Call("recv_exact", <<count>>, "none", "bytes", <<>>, r.data)
                        /\ UNCHANGED <<socket, connected>>
                   ELSE /\ Call("recv_exact", <<count>>, ws_recv_error(text), "None",
                                <<>>, <<>>)
                        /\ SetConn(cleanup_socket(Conn))
  /\ UNCHANGED <<inbuf, peerClosed, fb_buffer, fb_dirty, should_stop, is_recording,
                 frames, frame_count, recording_thread, workers, callerPc, loc, bridge,
                 current_position, button_mask, cached_content, capture_deps, transport,
                 scope, linked, delivered, raster>>

\* the server sends some bytes on the TCP stream
TcpServerSend ==
  /\ transport = "TCPVNCConnection"
  /\ socket = "open"
  /\ ~peerClosed
  /\ \E m \in WsFrames :
       /\ Len(inbuf) + Len(m) <= MaxInbuf
       /\ inbuf' = inbuf \o m
  /\ actor' = "server"
  /\ UNCHANGED <<socket, connected, peerClosed, fb_buffer, fb_dirty, should_stop,
                 is_recording, frames, frame_count, recording_thread, workers, callerPc,
                 loc, inputVars, lastCall>>

\* _recv_exact(count) of a TCPVNCConnection; result is what it returned
TcpRecvExact ==
  /\ transport = "TCPVNCConnection"
  /\ callerPc = "idle"
  /\ \E count \in 0..MaxCount :
       IF socket = "none"
         THEN /\ Call("recv_exact", <<count>>, "VNCConnectionError", "None", <<>>, <<>>)
              /\ UNCHANGED <<socket, connected, inbuf, peerClosed>>
         ELSE \E r \in {recv_exact(inbuf, count, peerClosed)} :
              /\ SetConn(recv_conn(Conn, r.st))
              /\ inbuf' = stream(recv_conn(Conn, r.st), r.rest)
              /\ peerClosed' = closing(recv_conn(Conn, r.st), peerClosed)
              /\ IF r.st = "ok"
                   THEN Call("recv_exact", <<count>>, "none", "bytes", <<>>, r.data)
                   ELSE Call("recv_exact", <<count>>, recv_error(r.st), "None", <<>>, <<>>)
  /\ UNCHANGED <<fb_buffer, fb_dirty, should_stop, is_recording, frames, frame_count,
                 recording_thread, workers, callerPc, loc, inputVars>>

\* a connect() that succeeds: a new socket, on which nothing was sent or
\* returned yet beyond the handshake
ConnOpen ==
  /\ transport # "VNCConnection"
  /\ callerPc = "idle"
  /\ socket = "none"
  /\ SetConn([socket |-> "open", connected |-> TRUE])
  /\ inbuf' = <<>>
  /\ peerClosed' = FALSE
  /\ ws_frames' = <<>>
  /\ delivered' = <<>>
  /\ returned' = <<>>
  /\ Call("connect", <<>>, "none", "None", <<>>, <<>>)
  /\ UNCHANGED <<fb_buffer, fb_dirty, should_stop, is_recording,
                 frames, frame_count, recording_thread, workers, callerPc, loc, bridge,
                 current_position, button_mask, cached_content, capture_deps, transport,
                 scope, linked, recv_buffer, raster>>

(***************************************************************************)
(* FramebufferManager with its raster (core/framebuffer.py).  A raster is  *)
(* a function from <<row, column>> to the 4 bytes of that pixel.           *)
(***************************************************************************)
\* FramebufferConfig of a manager the caller constructs
FbWidth == 2
FbHeight == 1
\* rectangles reach one past the raster in both directions
MaxRect == 2
\* np.zeros((height, width, 4))
zeros == [p \in (0..FbHeight - 1) \X (0..FbWidth - 1) |-> <<0, 0, 0, 0>>]

Min(a, b) == IF a < b THEN a ELSE b
\* the length of the slice lo : lo + n of an axis of the given size
slice_len(lo, n, size) == Min(lo + n, size) - Min(lo, size)
\* numpy assigns an array of length n along an axis to a slice of length k
\* when the lengths agree or the array's is 1
broadcasts(n, k) == n = k \/ n = 1

\* update_rectangle(x, y, width, height, pixel_data) on the raster buf
update_rectangle(allocated, buf, x, y, width, height, pixel_data) ==
  IF ~allocated THEN [err |-> "RuntimeError", buf |-> buf]
  ELSE IF Len(pixel_data) # width * height * 4
    THEN [err |-> "ValueError", buf |-> buf]
  ELSE IF ~ (/\ broadcasts(height, slice_len(y, height, FbHeight))
             /\ broadcasts(width, slice_len(x, width, FbWidth)))
    THEN [err |-> "ValueError", buf |-> buf]
  ELSE [err |-> "none",
        buf |-> [p \in DOMAIN buf |->
                   IF /\ p[1] \in y..(y + height - 1)
                      /\ p[2] \in x..(x + width - 1)
                     THEN SubSeq(pixel_data,
                                 ((p[1] - y) * width + (p[2] - x)) * 4 + 1,
                                 ((p[1] - y) * width + (p[2] - x)) * 4 + 4)
                     ELSE buf[p]]]

\* the for loop of process_update: the rectangles one after the other,
\* until one raises
RECURSIVE update_rectangles(_, _)
update_rectangles(buf, rects) ==
  IF rects = <<>> THEN [err |-> "none", buf |-> buf]
  ELSE Bind(update_rectangle(TRUE, buf, rects[1].x, rects[1].y, rects[1].width,
                             rects[1].height, rects[1].data), LAMBDA u :
    IF u.err # "none" THEN u ELSE update_rectangles(u.buf, Tail(rects)))

\* process_update(rectangles) with the raster
process_update_raster(allocated, buf, dirty, rects) ==
  IF ~allocated THEN [err |-> "RuntimeError", buf |-> buf, dirty |-> dirty]
  ELSE Bind(update_rectangles(buf, rects), LAMBDA u :
    [err |-> u.err, buf |-> u.buf, dirty |-> IF u.err = "none" THEN TRUE ELSE dirty])

\* pixel data that paints every pixel with one colour
fill(n, colour) == [i \in 1..n |-> colour]
\* the rectangles of a call: inside the raster, across its edge and past it,
\* with pixel data of the right size or 4 bytes short
Rect(x, y, width, height, data) ==
  [x |-> x, y |-> y, width |-> width, height |-> height, data |-> data]
RectsOf(colours) ==
  {Rect(x, y, w, h, fill(w * h * 4 - short, c)) :
     x \in 0..FbWidth, y \in 0..FbHeight, w \in 1..MaxRect, h \in 1..MaxRect,
     short \in {0, 4}, c \in colours}
Rects == RectsOf({1, 2})
\* the rectangle lists of a process_update call
\* the rectangle lists of a process_update call: none, one, or one that
\* fits followed by any other
Fits(r) ==
  /\ r.x + r.width <= FbWidth /\ r.y + r.height <= FbHeight
  /\ Len(r.data) = r.width * r.height * 4
RectLists ==
  {<<>>} \cup {<<r>> : r \in Rects}
         \cup {<<r, q>> : r \in {f \in RectsOf({1}) : Fits(f)}, q \in RectsOf({2})}

\* framebuffer.initialize_buffer() of that manager
FbInitializeBuffer ==
  /\ callerPc = "idle"
  /\ fb_buffer' = TRUE
  /\ raster' = zeros
  /\ fb_dirty' = FALSE
  /\ Call("initialize_buffer", <<>>, "none", "None", <<>>, <<>>)
  /\ UNCHANGED <<socket, connected, inbuf, peerClosed, should_stop, is_recording,
                 frames, frame_count, recording_thread, workers, callerPc, loc, bridge,
                 current_position, button_mask, cached_content, capture_deps, transport,
                 scope, linked, ws_frames, recv_buffer, delivered, returned>>

\* framebuffer.update_rectangle(x, y, width, height, pixel_data)
FbUpdateRectangle ==
  /\ callerPc = "idle"
  /\ \E r \in Rects :
       \E u \in {update_rectangle(fb_buffer, raster, r.x, r.y, r.width, r.height,
                                  r.data)} :
         /\ raster' = u.buf
         /\ Call("update_rectangle", <<r>>, u.err, "None", <<>>, <<>>)
  /\ UNCHANGED <<socket, connected, inbuf, peerClosed, fb_buffer, fb_dirty, should_stop,
                 is_recording, frames, frame_count, recording_thread, workers, callerPc,
                 loc, bridge, current_position, button_mask, cached_content,
                 capture_deps, transport, scope, linked, ws_frames, recv_buffer,
                 delivered, returned>>

\* framebuffer.process_update(rectangles)
FbProcessUpdate ==
  /\ callerPc = "idle"
  /\ \E rects \in RectLists :
       \E u \in {process_update_raster(fb_buffer, raster, fb_dirty, rects)} :
         /\ raster' = u.buf
         /\ fb_dirty' = u.dirty
         /\ Call("process_update", rects, u.err, "None", <<>>, <<>>)
  /\ UNCHANGED <<socket, connected, inbuf, peerClosed, fb_buffer, should_stop,
                 is_recording, frames, frame_count, recording_thread, workers, callerPc,
                 loc, bridge, current_position, button_mask, cached_content,
                 capture_deps, transport, scope, linked, ws_frames, recv_buffer,
                 delivered, returned>>

\* framebuffer.is_dirty: returns the flag and resets it
FbIsDirty ==
  /\ callerPc = "idle"
  /\ fb_dirty' = FALSE
  /\ Call("is_dirty", <<>>, "none", IF fb_dirty THEN "True" ELSE "False", <<>>, <<>>)
  /\ UNCHANGED <<socket, connected, inbuf, peerClosed, fb_buffer, should_stop,
                 is_recording, frames, frame_count, recording_thread, workers, callerPc,
                 loc, bridge, current_position, button_mask, cached_content,
                 capture_deps, transport, scope, linked, engineVars>>

\* framebuffer.reset()
FbReset ==
  /\ callerPc = "idle"
  /\ fb_buffer' = FALSE
  /\ raster' = <<>>
  /\ fb_dirty' = FALSE
  /\ Call("reset", <<>>, "none", "None", <<>>, <<>>)
  /\ UNCHANGED <<socket, connected, inbuf, peerClosed, should_stop, is_recording,
                 frames, frame_count, recording_thread, workers, callerPc, loc, bridge,
                 current_position, button_mask, cached_content, capture_deps, transport,
                 scope, linked, ws_frames, recv_buffer, delivered, returned>>

(* The DES key of _vnc_auth_response (core/connection_tcp.py).  A password *)
(* is the sequence of its latin-1 byte values.                             *)
(***************************************************************************)
\* bound on the length of a password
MaxPassword == 9

\* reverse_bits(byte_val): result = (result << 1) | ((byte_val >> i) & 1)
\* for i = 0 .. 7
RECURSIVE reverse_loop(_, _, _)
reverse_loop(byte_val, i, acc) ==
  IF i = 8 THEN acc
  ELSE reverse_loop(byte_val, i + 1, (acc * 2) + ((byte_val \div Pow2(i)) % 2))
\* the password bytes as they are, without the reversal
keep_bits(byte_val) == byte_val
reverse_bits(byte_val) == reverse_loop(byte_val, 0, 0)

\* password_padded: truncated to 8 bytes, bits reversed, padded with nulls
des_key(password) ==
  LET truncated == SubSeq(password, 1, Min(Len(password), 8))
      reversed == [i \in 1..Len(truncated) |-> reverse_bits(truncated[i])]
  IN SubSeq(reversed \o <<0, 0, 0, 0, 0, 0, 0, 0>>, 1, 8)

\* "pass"
PASS == <<112, 97, 115, 115>>
\* bound on the length of the passwords of two letters
MaxMixed == 6
\* "pass", the short passwords over "p" and 0x81, and long ones of 0xFF
Passwords ==
  {PASS} \cup UNION {[1..n -> {112, 129}] : n \in 0..MaxMixed}
         \cup {[i \in 1..n |-> 255] : n \in (MaxMixed + 1)..MaxPassword}

\* _vnc_auth_response(challenge, password) up to the key; result is the key
DesKey ==
  /\ callerPc = "idle"
  /\ \E password \in Passwords :
       Call("vnc_auth_response", <<password>>, "none", "bytes", <<>>, des_key(password))
  /\ UNCHANGED <<socket, connected, inbuf, peerClosed, fb_buffer, fb_dirty, should_stop,
                 is_recording, frames, frame_count, recording_thread, workers, callerPc,
                 loc, inputVars>>

(***************************************************************************)
(* VideoRecorder.save_frames (core/video.py).  A written file is the name  *)
(* made of the frame's number and where its pixels come from: the frame    *)
(* ("frame") or a capture taken while saving ("capture").                  *)
(***************************************************************************)
\* the frame lists handed to save_frames
FrameLists == UNION {[1..n -> 0..1] : n \in 0..MaxFrames}

File(frame_number, pixels) == [name |-> frame_number, pixels |-> pixels]

\* the for loop of save_frames: for each frame the file name, then
\* self._screenshot.save(filepath, format), which captures the screen and
\* writes that capture; i counts the captures
RECURSIVE save_each(_, _, _, _, _, _, _, _, _)
save_each(c, buf, closed, allocated, frs, failAt, i, out, written) ==
  IF frs = <<>>
    THEN [conn |-> c, rest |-> buf, err |-> "none", dirty |-> i > 1, sent |-> out,
          written |-> written]
  ELSE Bind(capture(c, buf, closed, allocated, FALSE, IF failAt = i THEN 1 ELSE 0),
            LAMBDA r :
    IF r.err # "none"
      THEN [conn |-> r.conn, rest |-> r.rest, err |-> r.err, dirty |-> i > 1,
            sent |-> out \o r.sent, written |-> written]
      ELSE save_each(r.conn, r.rest, closed, allocated, Tail(frs), failAt, i + 1,
                     out \o r.sent, Append(written, File(Head(frs), "capture"))))

\* save_frames(frames, directory)
save_frames(c, buf, closed, allocated, frs, failAt) ==
  IF frs = <<>>
    THEN [conn |-> c, rest |-> buf, err |-> "VNCInputError", dirty |-> FALSE,
          sent |-> <<>>, written |-> <<>>]
    ELSE save_each(c, buf, closed, allocated, frs, failAt, 1, <<>>, <<>>)

\* vnc.video.save_frames(frames, directory); result is the files written
SaveFrames ==
  /\ callerPc = "idle"
  /\ bridge.video
  /\ \E frs \in FrameLists, failAt \in FailAts :
       \E o \in {save_frames(Conn, inbuf, peerClosed, fb_buffer, frs, failAt)} :
          /\ SetConn(o.conn)
          /\ inbuf' = stream(o.conn, o.rest)
          /\ peerClosed' = closing(o.conn, peerClosed)
          /\ fb_dirty' = (fb_dirty \/ o.dirty)
          /\ Call("save_frames", <<frs>>, o.err, "None", o.sent, o.written)
  /\ UNCHANGED <<linked, bridge, current_position, button_mask, cached_content, fb_buffer,
                 should_stop, is_recording, frames, frame_count, recording_thread,
                 workers, capture_deps, transport, engineVars, callerPc, loc, scope>>

(***************************************************************************)
(* The TLS options of WebSocketVNCConnection.connect                        *)
(* (core/connection_websocket.py).  None is <<>>, a value v is <<v>>.      *)
(***************************************************************************)
\* _create_ssl_context(): None without a certificate, else the default
\* context, weakened when verify_ssl is false
create_ssl_context(verify_ssl, certificate_pem) ==
  IF certificate_pem = <<>> THEN <<>>
  ELSE <<[check_hostname |-> verify_ssl,
          verify_mode |-> IF verify_ssl THEN "CERT_REQUIRED" ELSE "CERT_NONE"]>>

\* the sslopt argument of websocket.create_connection
sslopt(verify_ssl, certificate_pem) ==
  IF create_ssl_context(verify_ssl, certificate_pem) # <<>>
    THEN [cert_reqs |-> IF verify_ssl THEN "CERT_REQUIRED" ELSE "CERT_NONE",
          ssl_context |-> create_ssl_context(verify_ssl, certificate_pem)]
    ELSE [cert_reqs |-> "CERT_NONE", ssl_context |-> <<>>]

\* the certificate_pem setting: None or a certificate
Certificates == {<<>>, <<"pem">>}
\* the servers of these connects: one that accepts, one that offers two
\* security types, one that refuses
TlsScripts == {HS38_NONE, HS38_BOTH, HS38_REFUSED}

\* connect() of a WebSocketVNCConnection built with verify_ssl and
\* certificate_pem; result is <<the sslopt handed to create_connection>>,
\* or <<>> when connect() raised before it opened a connection
WsTlsConnect ==
  /\ transport = "WebSocketVNCConnection"
  /\ callerPc = "idle"
  /\ \E verify_ssl \in BOOLEAN, certificate_pem \in Certificates, url \in UrlSettings,
        tcp \in TcpOutcomes, script \in TlsScripts :
       \E r \in {ws_connect(Conn, url, tcp, script, FALSE, 0, TRUE)} :
         /\ SetConn(r.conn)
         /\ inbuf' = IF r.fresh THEN stream(r.conn, r.rest) ELSE inbuf
         /\ peerClosed' = IF r.fresh THEN FALSE ELSE peerClosed
         /\ Call("connect", <<verify_ssl, certificate_pem, url, tcp, script>>, r.err,
                 "None", r.out,
                 IF connected \/ substitute_url_template(url) # "none"
                   THEN <<>> ELSE <<sslopt(verify_ssl, certificate_pem)>>)
  /\ UNCHANGED <<fb_buffer, fb_dirty, should_stop, is_recording, frames, frame_count,
                 recording_thread, workers, callerPc, loc, inputVars>>

(***************************************************************************)
(* Construction and the specifications.                                    *)
(***************************************************************************)
\* the objects as their constructors leave them
Constructed ==
  /\ socket = "none"
  /\ connected = FALSE
  /\ inbuf = <<>>
  /\ peerClosed = FALSE
  /\ bridge = NoBridge
  /\ current_position = <<0, 0>>
  /\ button_mask = 0
  /\ cached_content = <<>>
  /\ fb_buffer = FALSE
  /\ fb_dirty = FALSE
  /\ should_stop = FALSE
  /\ is_recording = FALSE
  /\ frames = <<>>
  /\ frame_count = 0
  /\ recording_thread = 0
  /\ workers = [w \in 1..MaxWorkers |-> NoWorker]
  /\ callerPc = "idle"
  /\ loc = NoLoop
  /\ scope = [state |-> "out", disconnects |-> 0]
  /\ op = "init"
  /\ args = <<>>
  /\ actor = "caller"
  /\ linked = FALSE
  /\ err = "none"
  /\ ret = "None"
  /\ sent = <<>>
  /\ result = <<>>
  /\ ws_frames = <<>>
  /\ recv_buffer = <<>>
  /\ delivered = <<>>
  /\ returned = <<>>
  /\ raster = <<>>

\* a Facade, which creates a VNCConnection
Init ==
  /\ Constructed
  /\ capture_deps \in BOOLEAN
  /\ transport = "VNCConnection"

\* a connection object the caller creates and uses directly
InitConnection ==
  /\ Constructed
  /\ capture_deps = FALSE
  /\ transport \in {"TCPVNCConnection", "WebSocketVNCConnection"}

\* the Facade's life cycle, with some calls that use the session
NextBridge ==
  \/ ServerClose
  \/ Connect
  \/ Disconnect
  \/ Access
  \/ WithEnter
  \/ WithExit
  \/ MoveTo
  \/ PressKey
  \/ InitializeBuffer

SpecBridge == Init /\ [][NextBridge]_vars

\* the input and clipboard controllers on one connection
NextInput ==
  \/ Connect
  \/ Disconnect
  \/ LeftClick
  \/ RightClick
  \/ DoubleClick
  \/ MoveTo
  \/ DragTo
  \/ ScrollUp
  \/ ScrollDown
  \/ ScrollTo
  \/ TypeText
  \/ PressKey
  \/ KeyDown
  \/ KeyUp
  \/ Hotkey
  \/ SendText
  \/ Clear
  \/ GetText
  \/ HasText
  \/ Capture

SpecInput == Init /\ [][NextInput]_vars

\* the calls that read server messages, and the server
NextProtocol ==
  \/ ServerSend
  \/ ServerClose
  \/ Connect
  \/ Disconnect
  \/ InitializeBuffer
  \/ Capture
  \/ GetText

SpecProtocol == Init /\ [][NextProtocol]_vars

\* the recorder, its worker threads, the server and a caller who also
\* moves the pointer and takes screenshots
NextVideo ==
  \/ ServerUpdate
  \/ Connect
  \/ Disconnect
  \/ InitializeBuffer
  \/ Capture
  \/ StartRecording
  \/ StopRecording
  \/ StopJoined
  \/ RecordBegin
  \/ RecordCondition
  \/ RecordFrame
  \/ RecordEnd
  \/ \E w \in 1..MaxWorkers : WorkerExit(w)
  \/ \E w \in 1..MaxWorkers : WorkerRequest(w)
  \/ \E w \in 1..MaxWorkers : WorkerRead(w)

SpecVideo == Init /\ [][NextVideo]_vars

\* a ClipboardController on one connection, and the server
NextClipboard ==
  \/ ServerSend
  \/ ServerClose
  \/ Connect
  \/ Disconnect
  \/ SendText
  \/ Clear
  \/ GetText
  \/ HasText

SpecClipboard == Init /\ [][NextClipboard]_vars

\* a connection object: connect against every server script, disconnect
NextConnection ==
  \/ ConnConnect
  \/ ConnDisconnect

SpecConnection == InitConnection /\ [][NextConnection]_vars

(***************************************************************************)
(* The receive side of a connection object, and the server.                *)
(***************************************************************************)
NextRecv ==
  \/ ConnOpen
  \/ ServerClose
  \/ TcpServerSend
  \/ TcpRecvExact
  \/ WsServerSend
  \/ WsRecvExact

SpecRecv == InitConnection /\ [][NextRecv]_vars

(***************************************************************************)
(* A FramebufferManager the caller applies rectangles to.                  *)
(***************************************************************************)
NextFramebuffer ==
  \/ FbInitializeBuffer
  \/ FbUpdateRectangle
  \/ FbProcessUpdate
  \/ FbIsDirty
  \/ FbReset

SpecFramebuffer == Init /\ [][NextFramebuffer]_vars

(***************************************************************************)
(* The key derivation of VNC authentication, over passwords.               *)
(***************************************************************************)
NextDesKey == DesKey

SpecDesKey == InitConnection /\ [][NextDesKey]_vars

(***************************************************************************)
(* Background recording under a fair scheduler: every worker thread that   *)
(* can take a step eventually takes one.                                   *)
(***************************************************************************)
NextRecording ==
  \/ ServerUpdate
  \/ Connect
  \/ Disconnect
  \/ StartRecording
  \/ StopRecording
  \/ StopJoined
  \/ \E w \in 1..MaxWorkers : WorkerExit(w)
  \/ \E w \in 1..MaxWorkers : WorkerRequest(w)
  \/ \E w \in 1..MaxWorkers : WorkerRead(w)

\* the threads of _recording_worker are scheduled again and again
WorkerFairness ==
  \A w \in 1..MaxWorkers :
    /\ WF_vars(WorkerExit(w))
    /\ WF_vars(WorkerRequest(w))
    /\ WF_vars(WorkerRead(w))

SpecRecording == Init /\ [][NextRecording]_vars /\ WorkerFairness

(***************************************************************************)
(* Saving frames on a session whose server sends updates.                  *)
(***************************************************************************)
NextSaveFrames ==
  \/ ServerUpdate
  \/ ServerClose
  \/ Connect
  \/ Disconnect
  \/ InitializeBuffer
  \/ SaveFrames

SpecSaveFrames == Init /\ [][NextSaveFrames]_vars

(***************************************************************************)
(* A WebSocketVNCConnection and the TLS options of its connects.           *)
(***************************************************************************)
NextTls ==
  \/ WsTlsConnect
  \/ ConnDisconnect

SpecTls == InitConnection /\ [][NextTls]_vars

(***************************************************************************)
(* The claims.                                                             *)
(***************************************************************************)

\* C1: a with-block connects on entry; the body runs only if that connect
\* returned; on exit, with or without an exception from the body, __exit__
\* has called disconnect exactly once, is_connected is false and the
\* exception the body raised is the one the with statement raises.
C1_ScopedUseDisconnectsOnce ==
  /\ scope.disconnects <= 1
  /\ (scope.state = "body" => scope.disconnects = 0)
  /\ (op = "__enter__" => ((scope.state = "body") <=> (err = "none")))
  /\ (op = "__enter__" /\ err = "none" => is_connected(Conn))
  /\ (op = "__exit__" =>
        /\ scope.state = "out"
        /\ scope.disconnects = 1
        /\ ~is_connected(Conn)
        /\ ret = "None"
        /\ err = args[1])

\* a with-block whose body raised ValueError has been left
C1_ExitWithException ==
  /\ op = "__exit__"
  /\ err = "ValueError"
  /\ scope.disconnects = 1
  /\ ~is_connected(Conn)

\* the properties that hand out an input controller
InputProperties == {"mouse", "keyboard", "scroll"}

\* C2: while no connect() has succeeded since construction or since the
\* last disconnect(), reading mouse, keyboard, scroll, screenshot or video
\* raises and returns no controller; once a connect() has succeeded and
\* until disconnect(), mouse, keyboard and scroll return their controller.
C2_ControllersFollowConnect ==
  op \in Properties =>
    IF linked
      THEN (op \in InputProperties => err = "none" /\ ret = "controller")
      ELSE err # "none" /\ ret # "controller"

\* video was read, and raised, after the with-block had disconnected
C2_RaisedAfterDisconnect ==
  /\ op = "video"
  /\ ~linked
  /\ err = "VNCStateError"
  /\ scope.disconnects = 1

\* C4: when a call raises a protocol error or a connection error, the
\* transport is already torn down: is_connected is false.
C4_FatalErrorsTearDown ==
  err \in {"VNCProtocolError", "VNCConnectionError"} => ~is_connected(Conn)

\* the arguments the documented domain of a method excludes
BadCoordinate(v) == v < 0 \/ v > 65535
BadOptional(o) == o # <<>> /\ BadCoordinate(o[1])
UnknownKey(k) == k.kind = "name" /\ k.name \notin {"ctrl", "shift", "enter"}
BadInput(name, a) ==
  CASE name \in {"left_click", "right_click", "double_click"} ->
         BadOptional(a[1]) \/ BadOptional(a[2])
    [] name \in {"move_to", "drag_to", "scroll_to"} ->
         BadCoordinate(a[1]) \/ BadCoordinate(a[2])
    [] name \in {"scroll_up", "scroll_down"} -> a[1] < 0
    [] name \in {"send_text", "type_text"} -> a[1] = <<>>
    [] name = "get_text" -> a[1] < 0
    [] name \in {"press_key", "keydown", "keyup"} -> UnknownKey(a[1])
    [] name = "hotkey" -> \E i \in 1..Len(a) : UnknownKey(a[i])
    [] OTHER -> FALSE

\* C5: on a connected session, a call whose argument is outside its domain
\* (a coordinate below 0 or above 65535, a negative scroll amount, an empty
\* text, a negative get_text timeout, an unknown key name) raises
\* VNCInputError, writes nothing to the transport and reads nothing from
\* it, and leaves is_connected, the stored cursor, the button mask and the
\* clipboard cache as they were.
C5_BadInputRaisesBeforeIO ==
  [][(is_connected(Conn) /\ actor' = "caller" /\ BadInput(op', args'))
       => /\ err' = "VNCInputError"
          /\ sent' = <<>>
          /\ UNCHANGED <<socket, connected, inbuf, current_position, button_mask,
                         cached_content>>]_vars

\* scroll_to beyond the range raised on a connected session whose cursor
\* had moved and whose clipboard cache was filled
C5_RejectedOnConnectedSession ==
  /\ op = "scroll_to"
  /\ args = <<65536, 0>>
  /\ err = "VNCInputError"
  /\ is_connected(Conn)
  /\ current_position = <<65535, 65535>>
  /\ cached_content = <<(<<97>>)>>

\* C6: when the next byte of the stream starts a message other than
\* ServerCutText, get_text returns None and leaves the stream as it was,
\* so that the next read starts at that message's first byte.
C6_OtherMessageStaysWhole ==
  [][(/\ actor' = "caller"
      /\ op' = "get_text"
      /\ args'[1] >= 0
      /\ is_connected(Conn)
      /\ inbuf # <<>>
      /\ Head(inbuf) # CLIPBOARD_TEXT_SERVER)
       => ret' = "None" /\ inbuf' = inbuf]_vars

\* C10: a read of a controller property while is_connected is false (never
\* connected, disconnected, or torn down by the engine) raises.
C10_DisconnectedFacadeRaises ==
  op \in Properties /\ ~is_connected(Conn) => err \in {"VNCStateError", "RuntimeError"}

\* the calls that read server messages
ReadingCalls == {"capture", "get_text", "record", "record_until"}

\* C3: while a background recording is active and its worker is between
\* its update request and the read of the update, no step of the caller
\* writes a message to the transport or takes bytes from it.
C3_CallerStaysOutOfCapture ==
  [][(/\ is_recording
      /\ workers[recording_thread].pc = "read"
      /\ actor' = "caller")
       => /\ sent' = <<>>
          /\ (op' \in ReadingCalls => inbuf' = inbuf)]_vars

\* the calls that return a frame list
RecordingCalls == {"record", "record_until", "stop_recording"}

\* C7: the frame list record, record_until or stop_recording returns holds
\* the frame numbers 0, 1, 2, ... in that order.
C7_FrameNumbersAreIndexes ==
  op \in RecordingCalls /\ ret = "frames" =>
    \A i \in 1..Len(result) : result[i] = i - 1

\* C8: a worker that stop_recording has told to stop and that is at the
\* top of its loop starts no capture.
C8_StoppedWorkerStartsNoCapture ==
  [][\A w \in DOMAIN workers :
       workers[w].told /\ workers[w].pc = "top" => workers'[w].pc # "read"]_vars

\* C9: at most one worker thread of the Facade's recorder is running.
C9_AtMostOneWorker ==
  Cardinality(AliveHere) <= 1

\* C11: disconnect() on a Facade that is not connected raises nothing and
\* changes neither the connection nor the controllers the Facade holds.
C11_DisconnectWhenDisconnectedIsNoOp ==
  [][(actor' = "caller" /\ op' = "disconnect" /\ ~is_connected(Conn))
       => /\ err' = "none"
          /\ UNCHANGED <<socket, connected, bridge>>]_vars

\* the server offers VNC authentication (type 2) and no type 1, sends a
\* challenge and answers the response with a nonzero 4-byte status
RejectsAuthentication(script) ==
  /\ Len(script) >= 13
  /\ SubSeq(script, 1, 12) = PROTOCOL_VERSION
  /\ LET n == script[13] IN
       /\ n >= 1
       /\ Len(script) >= 13 + n + 20
       /\ \A i \in 1..n : script[13 + i] # 1
       /\ \E i \in 1..n : script[13 + i] = 2
       /\ U32(SubSeq(script, 13 + n + 17, 13 + n + 20)) # 0

\* C12: a connect() whose TCP or WebSocket connection is established, whose
\* writes all succeed and whose server answers VNC authentication with a
\* nonzero status raises VNCAuthenticationError.
C12_RejectedAuthenticationRaisesAuthError ==
  [][(/\ actor' = "caller" /\ op' = "connect"
      /\ transport # "VNCConnection" /\ ~connected
      /\ args'[1] = "ok" /\ RejectsAuthentication(args'[2])
      /\ args'[4] = 0 /\ args'[5])
       => err' = "VNCAuthenticationError"]_vars

TransportCalls ==
  {"left_click", "right_click", "double_click", "move_to", "drag_to", "scroll_up",
   "scroll_down", "scroll_to", "type_text", "press_key", "keydown", "keyup", "hotkey",
   "send_text", "clear", "get_text", "capture"}

\* the arguments pass the input validation of the call
PassesValidation(name, a) ==
  /\ ~BadInput(name, a)
  /\ name = "send_text" => latin1(a[1])

ClickMask(name) == IF name = "left_click" THEN 1 ELSE 4

\* the position a click with optional coordinates a aims at from cursor pos
ClickTarget(a, pos) ==
  <<IF a[1] # <<>> THEN a[1][1] ELSE pos[1], IF a[2] # <<>> THEN a[2][1] ELSE pos[2]>>

\* the PointerEvents of a click at target from cursor pos
ClickEvents(name, target, pos) ==
  (IF target # pos THEN <<PointerEv(target[1], target[2], 0)>> ELSE <<>>)
    \o <<PointerEv(target[1], target[2], ClickMask(name)),
         PointerEv(target[1], target[2], 0)>>

\* C15: a left_click or right_click that returns has written: one event
\* with mask 0 at the target if the target differs from the stored cursor,
\* then one event at the target with only the clicked button's bit, then
\* one event at the target with mask 0; a coordinate not supplied is taken
\* from the stored cursor.
C15_ClickEventSequence ==
  [][(actor' = "caller" /\ op' \in {"left_click", "right_click"} /\ err' = "none")
       => sent' = ClickEvents(op', ClickTarget(args', current_position),
                              current_position)]_vars

\* a right click that supplied only x, moved there and clicked
C15_RightClickMoved ==
  /\ op = "right_click"
  /\ args = << <<65535>>, <<>> >>
  /\ err = "none"
  /\ sent = <<PointerEv(65535, 0, 0), PointerEv(65535, 0, 4), PointerEv(65535, 0, 0)>>

\* the calls that write PointerEvents
PointerCalls ==
  {"left_click", "right_click", "double_click", "move_to", "drag_to", "scroll_up",
   "scroll_down", "scroll_to"}

\* C16: after a pointer call that returned and wrote at least one
\* PointerEvent, the cursor the mouse controller stores is the position of
\* the last PointerEvent written.
C16_CursorIsLastTransmitted ==
  [][(actor' = "caller" /\ op' \in PointerCalls /\ err' = "none" /\ sent' # <<>>)
       => current_position' = <<sent'[Len(sent')].a, sent'[Len(sent')].b>>]_vars

\* the moves of a drag: all but the first and the last event written
DragMoves(evs) == SubSeq(evs, 2, Len(evs) - 1)

\* C17: a drag_to(x, y, duration) that returns from cursor (sx, sy) has
\* written a button-down event at (sx, sy), then move events that all carry
\* the left-button bit and end at (x, y), then an event with mask 0 at
\* (x, y); with duration 0 there is exactly one move.
C17_DragEventSequence ==
  [][(actor' = "caller" /\ op' = "drag_to" /\ err' = "none")
       => /\ Len(sent') >= 3
          /\ sent'[1] = PointerEv(current_position[1], current_position[2], 1)
          /\ \A i \in 1..Len(DragMoves(sent')) : Bit(DragMoves(sent')[i].c, 0) = 1
          /\ LET last == DragMoves(sent')[Len(DragMoves(sent'))]
             IN <<last.a, last.b>> = <<args'[1], args'[2]>>
          /\ sent'[Len(sent')] = PointerEv(args'[1], args'[2], 0)
          /\ args'[3] = 0 => Len(DragMoves(sent')) = 1]_vars

\* C18: every event scroll_up writes has the bit of button 4 (wheel up) set,
\* every event scroll_down writes has the bit of button 5 (wheel down) set,
\* and none has the bit of the left, middle or right button set.
C18_WheelButtonsAsserted ==
  [][(actor' = "caller" /\ op' \in {"scroll_up", "scroll_down"})
       => \A i \in 1..Len(sent') :
            /\ sent'[i].t = "pointer"
            /\ Bit(sent'[i].c, IF op' = "scroll_up" THEN 3 ELSE 4) = 1
            /\ \A b \in 0..2 : Bit(sent'[i].c, b) = 0]_vars

\* C19: a scroll_to(x, y) that returns has written four PointerEvents: one
\* with mask 0 at (x, y), then three ticks, each at (x, y).
C19_ScrollToTicksAtTarget ==
  [][(actor' = "caller" /\ op' = "scroll_to" /\ err' = "none")
       => /\ Len(sent') = 4
          /\ sent'[1] = PointerEv(args'[1], args'[2], 0)
          /\ \A i \in 2..4 : /\ sent'[i].t = "pointer"
                             /\ <<sent'[i].a, sent'[i].b>> = <<args'[1], args'[2]>>]_vars

\* the keysym of a key that has one
Keysym(key) == IF key.kind = "name" THEN KEY_CODES[key.name] ELSE key.code
\* at least one modifier name before a last key that has a keysym
ValidHotkey(keys) ==
  /\ Len(keys) >= 2
  /\ \A i \in 1..(Len(keys) - 1) : keys[i].kind = "name" /\ keys[i].name \in MODIFIER_KEYS
  /\ (keys[Len(keys)].kind = "name" => keys[Len(keys)].name \in DOMAIN KEY_CODES)
\* fewer than two keys, or a key before the last one that is no modifier
MalformedHotkey(keys) ==
  \/ Len(keys) < 2
  \/ \E i \in 1..(Len(keys) - 1) : ~(keys[i].kind = "name" /\ keys[i].name \in MODIFIER_KEYS)
\* m1 down .. mk down, main down, main up, mk up .. m1 up
HotkeyEvents(keys) ==
  LET k == Len(keys) - 1
  IN [i \in 1..(2 * k + 2) |->
        IF i <= k THEN KeyEv(Keysym(keys[i]), TRUE)
        ELSE IF i = k + 1 THEN KeyEv(Keysym(keys[k + 1]), TRUE)
        ELSE IF i = k + 2 THEN KeyEv(Keysym(keys[k + 1]), FALSE)
        ELSE KeyEv(Keysym(keys[2 * k + 3 - i]), FALSE)]

\* C20: on a connected session a hotkey of k >= 1 modifier names and a main key
\* that completes has written exactly the modifiers' key-downs in argument
\* order, the main key's down and up, and the modifiers' key-ups in reverse
\* order (a transport failure leaves a prefix of that sequence); a hotkey of
\* fewer than two keys, or with a non-modifier before the last position, raises
\* VNCInputError with no key event written.
C20_HotkeyEventSequence ==
  [][(actor' = "caller" /\ op' = "hotkey" /\ is_connected(Conn))
       => /\ ValidHotkey(args')
             => /\ err' \in {"none", "VNCConnectionError"}
                /\ Len(sent') <= Len(HotkeyEvents(args'))
                /\ sent' = SubSeq(HotkeyEvents(args'), 1, Len(sent'))
                /\ err' = "none" => sent' = HotkeyEvents(args')
          /\ MalformedHotkey(args')
             => err' = "VNCInputError" /\ sent' = <<>>]_vars
\* ctrl+shift+a went out whole: two downs, a down, a up, shift up, ctrl up
C20_CtrlShiftASent ==
  /\ op = "hotkey" /\ err = "none"
  /\ args = <<NameKey("ctrl"), NameKey("shift"), CharKey(97)>>
  /\ sent = <<KeyEv(65507, TRUE), KeyEv(65505, TRUE), KeyEv(97, TRUE),
              KeyEv(97, FALSE), KeyEv(65505, FALSE), KeyEv(65507, FALSE)>>

\* keydown(key) and, if it returned, keyup(key): the error of the pair and
\* the events the two calls wrote, one after the other
down_then_up(st, key, failDown, failUp) ==
  Bind(keydown(st, key, failDown), LAMBDA d :
    IF d.err # "none" THEN d
    ELSE Bind(keyup([conn |-> d.conn, pos |-> d.pos, mask |-> d.mask], key, failUp),
              LAMBDA u : [u EXCEPT !.sent = d.sent \o u.sent]))
\* the keys a caller can pass: names, characters and keysym numbers
AnyKeys == Keys \cup {NameKey("shift"), IntKey(65)}

\* C21: in every session state and for every key, keydown(k) followed by
\* keyup(k) writes the events press_key(k) writes and ends in the same error:
\* on a connected session with a known key a key-down and then a key-up of one
\* keysym, for an unknown key or a disconnected session the same error with
\* nothing written; and a keyup(k) call that follows a returned keydown(k)
\* completes the pair press_key(k) would have written.
C21_KeydownKeyupIsPressKey ==
  /\ [](\A key \in AnyKeys :
          /\ down_then_up(MouseState, key, 0, 0) = press_key(MouseState, key, 0)
          /\ down_then_up(MouseState, key, 1, 0) = press_key(MouseState, key, 1)
          /\ down_then_up(MouseState, key, 0, 1) = press_key(MouseState, key, 2)
          /\ (is_connected(Conn) /\ get_keycode(key) # <<>>)
               => /\ down_then_up(MouseState, key, 0, 0).err = "none"
                  /\ down_then_up(MouseState, key, 0, 0).sent
                       = <<KeyEv(Keysym(key), TRUE), KeyEv(Keysym(key), FALSE)>>
          /\ (~is_connected(Conn) \/ get_keycode(key) = <<>>)
               => /\ down_then_up(MouseState, key, 0, 0).err
                       = (IF ~is_connected(Conn) THEN "VNCStateError" ELSE "VNCInputError")
                  /\ down_then_up(MouseState, key, 0, 0).sent = <<>>)
  /\ [][(/\ op = "keydown" /\ err = "none"
         /\ actor' = "caller" /\ op' = "keyup" /\ args' = args /\ err' = "none")
          => sent \o sent' = press_key(MouseState, args[1], 0).sent]_vars
\* a keyup of Enter went out on a connected session
C21_EnterReleased ==
  /\ op = "keyup" /\ args = <<NameKey("enter")>> /\ err = "none"
  /\ sent = <<KeyEv(65293, FALSE)>> /\ is_connected(Conn)

\* a character above U+00FF
Unmappable(text) == \E i \in 1..Len(text) : text[i] > 255

\* C22: on a connected session a type_text whose text holds a character above
\* U+00FF, at any position, raises VNCInputError and writes no key event.
C22_UnmappableTextSendsNothing ==
  [][(/\ actor' = "caller" /\ op' = "type_text" /\ is_connected(Conn)
      /\ Unmappable(args'[1]))
       => err' = "VNCInputError" /\ sent' = <<>>]_vars

\* the ServerCutText message that carries text, as the server writes it
ServerCutText(text) == <<CLIPBOARD_TEXT_SERVER, 0, 0, 0, 0, Len(text)>> \o text

\* C23: the clipboard cache changes only as follows: a send_text that returns
\* sets it to the text sent, a get_text that returns a text sets it to that
\* text (the body of the ServerCutText message it consumed), a clear that
\* returns sets it to None; a send_text or clear that raises, a get_text that
\* returns None, has_text and every other step leave it as it was; and
\* has_text returns True exactly when the cache holds a non-empty string.
C23_ClipboardCacheFollowsCalls ==
  [][/\ (actor' = "caller" /\ op' = "send_text")
          => cached_content' = (IF err' = "none" THEN <<args'[1]>> ELSE cached_content)
     /\ (actor' = "caller" /\ op' = "clear")
          => cached_content' = (IF err' = "none" THEN <<>> ELSE cached_content)
     /\ (actor' = "caller" /\ op' = "get_text")
          => IF ret' = "text"
               THEN /\ cached_content' # <<>>
                    /\ err' = "none"
                    /\ inbuf = ServerCutText(cached_content'[1]) \o inbuf'
               ELSE cached_content' = cached_content
     /\ (actor' = "caller" /\ op' = "has_text")
          => /\ cached_content' = cached_content
             /\ (ret' = "True") <=> (cached_content # <<>> /\ cached_content[1] # <<>>)
     /\ (actor' # "caller" \/ op' \notin {"send_text", "clear", "get_text", "has_text"})
          => cached_content' = cached_content]_vars
\* has_text answered False on a cache that holds the empty string
C23_EmptyStringCached ==
  op = "has_text" /\ ret = "False" /\ cached_content = << <<>> >>

\* the screen sizes a server announces in ServerInit
AnnouncedSizes == {<<800, 600>>, <<1920, 1080>>}
\* FramebufferManager.config.width and .height after the Facade's connect()
ConfiguredSize == <<DefaultWidth, DefaultHeight>>

\* C24: when the Facade's connect() has returned and built the framebuffer
\* components, the framebuffer's buffer is allocated and its configured width
\* and height are the ones the server announced, whatever size that is.
C24_FramebufferMatchesServerInit ==
  [][(actor' = "caller" /\ op' = "connect" /\ err' = "none" /\ bridge'.framebuffer)
       => /\ fb_buffer'
          /\ \A announced \in AnnouncedSizes : ConfiguredSize = announced]_vars

\* the template names a placeholder that has no value
MissingPlaceholder(url) ==
  \/ "ticket" \in url.template /\ (url.ticket = <<>> \/ url.ticket = << <<>> >>)
  \/ "vnc_port" \in url.template /\ url.vnc_port = <<>>
  \/ "password" \in url.template

\* C25: a connect() of a WebSocketVNCConnection whose URL template names a
\* placeholder without a value raises ValueError, writes nothing and leaves
\* the connection without a WebSocket.
C25_MissingPlaceholderIsValueError ==
  [][(/\ actor' = "caller" /\ op' = "connect" /\ transport = "WebSocketVNCConnection"
      /\ ~connected /\ MissingPlaceholder(args'[6]))
       => /\ err' = "ValueError"
          /\ sent' = <<>>
          /\ socket' = "none" /\ ~connected']_vars

\* the caller's capture of one turn of a loop took place: the local list is
\* unchanged or one frame longer, and what went to the transport is what a
\* capture writes
CaptureAttempted ==
  /\ callerPc' = callerPc
  /\ \/ loc'.frames = loc.frames
     \/ loc'.frames = Append(loc.frames, loc.frame_num)
  /\ \E failAt \in {0, 1} :
       sent' = capture(Conn, inbuf, peerClosed, fb_buffer, TRUE, failAt).sent
\* the caller's step took nothing from the transport and wrote nothing to it
NoCapture ==
  /\ sent' = <<>>
  /\ UNCHANGED <<socket, connected, inbuf, peerClosed, fb_dirty>>

\* C26: inside record_until every step of the caller is one of these: at the
\* top of a turn, with the condition not yet asked, either the loop is left
\* (the time is up) or condition() is called once, without a capture; after
\* condition() returned False or raised, the capture of that turn is attempted
\* and the next turn starts with the condition not yet asked; after
\* condition() returned True no capture is made and the call returns the
\* frames captured so far.
C26_RecordUntilAsksBeforeEachCapture ==
  [][(actor' = "caller" /\ callerPc = "record_until")
       => CASE loc.cond = "none" ->
                 \/ /\ callerPc' = "record_until"
                    /\ loc'.cond \in ConditionOutcomes
                    /\ loc'.frames = loc.frames
                    /\ NoCapture
                 \/ /\ callerPc' = "idle"
                    /\ ret' = "frames" /\ result' = loc.frames
                    /\ NoCapture
            [] loc.cond \in {"false", "raises"} ->
                 /\ CaptureAttempted
                 /\ loc'.cond = "none"
            [] loc.cond = "true" ->
                 /\ callerPc' = "idle"
                 /\ ret' = "frames" /\ result' = loc.frames
                 /\ NoCapture]_vars
\* record_until captured a frame in a turn whose condition returned False or
\* raised, and in the next turn the condition returned True
C26_TrueAfterRaise ==
  /\ callerPc = "record_until" /\ loc.cond = "true" /\ loc.frames = <<0>>
  /\ op = "record_until"

\* the server speaks RFB 3.8, offers VNC authentication and not None, and
\* sends its 16-byte challenge
SelectsVncAuth(script) ==
  /\ Len(script) >= 13
  /\ SubSeq(script, 1, 12) = PROTOCOL_VERSION
  /\ script[13] >= 1
  /\ Len(script) >= 13 + script[13] + 16
  /\ \A i \in 14..(13 + script[13]) : script[i] # 1
  /\ \E i \in 14..(13 + script[13]) : script[i] = 2

\* C27: a connect() of a TCPVNCConnection or WebSocketVNCConnection to a
\* server that selects VNC authentication, made when no DES library can be
\* imported and the transport delivers every write, raises an error and
\* writes no challenge response.
C27_NoDesNoResponse ==
  [][(/\ actor' = "caller" /\ op' = "connect" /\ transport # "VNCConnection" /\ ~connected
      /\ args'[1] = "ok" /\ SelectsVncAuth(args'[2]) /\ args'[4] = 0 /\ ~args'[5]
      /\ args'[6] = URL_COMPLETE)
       => /\ err' # "none"
          /\ \A i \in 1..Len(sent') : sent'[i] # AuthResponseEv]_vars

\* servers that follow RFB 3.8 to the end of ServerInit, and go on or not
\* with a first message
ConformingServers == {HS38_NONE, HS38_BOTH, HS38_AUTH_OK}
\* the security types the server lists: one count byte n, then n bytes
OfferedTypes(script) == SubSeq(script, 14, 13 + script[13])
\* None if it is offered, else VNC authentication
ChosenType(script) ==
  IF \E i \in DOMAIN OfferedTypes(script) : OfferedTypes(script)[i] = 1 THEN 1 ELSE 2
\* what the client writes, step by step: its version, its security choice,
\* the challenge response if it authenticates, ClientInit
HandshakeWrites(chosen) ==
  <<RawEv(PROTOCOL_VERSION), RawEv(<<chosen>>)>>
    \o (IF chosen = 2 THEN <<AuthResponseEv>> ELSE <<>>) \o <<RawEv(<<1>>)>>
\* the server's bytes that follow version, security list, challenge and
\* result if any
FromServerInit(script) ==
  SubSeq(script, 14 + script[13] + (IF ChosenType(script) = 2 THEN 20 ELSE 0), Len(script))
\* the server's bytes that follow ServerInit: 4 bytes of size, 16 of pixel
\* format, 4 of name length, the name
AfterServerInit(script) ==
  LET init == FromServerInit(script)
  IN SubSeq(init, 25 + U32(SubSeq(init, 21, 24)), Len(init))
\* connect() of the class in use on a connection that is not connected, with
\* a transport that works and a DES library at hand
ClassConnect(script) ==
  CASE transport = "VNCConnection" -> conn_connect(Conn, "ok", script, 0)
    [] transport = "TCPVNCConnection" -> tcp_connect(Conn, "ok", script, FALSE, 0, TRUE)
    [] transport = "WebSocketVNCConnection"
         -> ws_connect(Conn, URL_COMPLETE, "ok", script, FALSE, 0, TRUE)

\* C28: connect() of the connection class in use, the Facade's included,
\* against a server that follows RFB 3.8 returns connected, having written the
\* client's version, one security-choice byte, the challenge response if VNC
\* authentication was chosen, and ClientInit, in that order, and having read
\* the server's bytes to the end of ServerInit, so that what is left to read
\* starts with the server's first message; and every connect() that returns
\* has written exactly such a sequence.
C28_HandshakeStepsInOrder ==
  /\ [](~connected =>
          \A script \in ConformingServers :
            /\ ClassConnect(script).err = "none"
            /\ ClassConnect(script).out = HandshakeWrites(ChosenType(script))
            /\ ClassConnect(script).rest = AfterServerInit(script))
  /\ [][(actor' = "caller" /\ op' = "connect" /\ ~connected /\ err' = "none")
          => sent' \in {HandshakeWrites(1), HandshakeWrites(2)}]_vars

\* C29: a connect() of a TCPVNCConnection or WebSocketVNCConnection that was
\* not connected and that raises, in whatever state of the handshake and for
\* whatever reason, leaves the connection not connected, without a socket or
\* WebSocket and with nothing buffered; a connect() on an object that is not
\* connected never raises the "already connected" VNCStateError; and the
\* connect() that follows a failed one succeeds when the server and the
\* transport let it.
C29_FailedHandshakeReleasesSocket ==
  [][(actor' = "caller" /\ op' = "connect" /\ transport # "VNCConnection" /\ ~connected)
       => /\ err' # "VNCStateError"
          /\ err' # "none" => (~connected' /\ socket' = "none" /\ inbuf' = <<>>)
          /\ (/\ op = "connect" /\ err # "none"
              /\ args'[1] = "ok" /\ args'[2] \in ConformingServers /\ args'[4] = 0
              /\ args'[5] /\ args'[6] = URL_COMPLETE)
               => (err' = "none" /\ connected' /\ socket' = "open")]_vars
\* the server closed the stream in the middle of the handshake, after the
\* client had written its version, its choice and ClientInit
C29_PeerClosedMidHandshake ==
  /\ op = "connect" /\ transport = "WebSocketVNCConnection"
  /\ args[1] = "ok" /\ args[2] = HS_RFB38 /\ args[3] /\ args[4] = 0
  /\ err = "VNCConnectionError" /\ sent = HandshakeWrites(1)
  /\ socket = "none" /\ ~connected

\* the server speaks RFB 3.8 and lists at least one security type, in full
OffersTypes(script) ==
  /\ Len(script) >= 13
  /\ SubSeq(script, 1, 12) = PROTOCOL_VERSION
  /\ script[13] >= 1
  /\ Len(script) >= 13 + script[13]
\* 1 if it is listed, else 2 if it is listed, else the first of the list
PreferredType(types) ==
  IF 1 \in {types[i] : i \in DOMAIN types} THEN 1
  ELSE IF 2 \in {types[i] : i \in DOMAIN types} THEN 2
  ELSE types[1]

\* C30: in a connect() of a TCPVNCConnection or WebSocketVNCConnection to a
\* server that lists one or more security types, the second message the
\* client writes, right after its version, is the single byte of the type it
\* prefers: 1 if listed, else 2 if listed, else the first listed; the challenge
\* response, if there is one, comes after it; and when that write fails
\* nothing else is written.
C30_SecurityChoiceWritten ==
  [][(/\ actor' = "caller" /\ op' = "connect" /\ transport # "VNCConnection" /\ ~connected
      /\ args'[1] = "ok" /\ OffersTypes(args'[2]) /\ args'[4] # 1
      /\ args'[6] = URL_COMPLETE)
       => IF args'[4] = 2
            THEN sent' = <<RawEv(PROTOCOL_VERSION)>> /\ err' # "none"
            ELSE /\ Len(sent') >= 2
                 /\ sent'[1] = RawEv(PROTOCOL_VERSION)
                 /\ sent'[2] = RawEv(<<PreferredType(OfferedTypes(args'[2]))>>)
                 /\ \A i \in 1..Len(sent') : sent'[i] = AuthResponseEv => i = 3]_vars
\* the server listed an unknown type before VNC authentication, and the
\* client chose VNC authentication
C30_VncAuthChosenOverFirst ==
  /\ op = "connect" /\ transport = "TCPVNCConnection"
  /\ args[1] = "ok" /\ args[2] = HS38_AUTH_REJECTED_OF_TWO /\ args[4] = 0 /\ args[5]
  /\ sent = <<RawEv(PROTOCOL_VERSION), RawEv(<<2>>), AuthResponseEv>>

\* C31: on a connected WebSocketVNCConnection, however the server's bytes
\* are split into non-empty messages, what _recv_exact has returned so far,
\* then _recv_buffer, then the messages not yet received, is the server's
\* byte stream: the returned bytes are its prefix and the buffer holds
\* exactly what was received and not returned; and every successful
\* _recv_exact(count) returns exactly count bytes.
C31_RecvExactReturnsStreamPrefix ==
  /\ []((transport = "WebSocketVNCConnection" /\ socket = "open")
          => returned \o recv_buffer \o concat(ws_frames) = delivered)
  /\ [][(/\ transport = "WebSocketVNCConnection"
         /\ op' = "recv_exact" /\ err' = "none" /\ actor' = "caller")
          => /\ Len(result') = args'[1]
             /\ returned' = returned \o result'
             /\ (Len(returned') = Len(delivered) - Len(concat(ws_frames'))
                   => recv_buffer' = <<>>)]_vars
\* a read that ended inside a message that came after a message boundary
C31_ReadAcrossFrames ==
  /\ transport = "WebSocketVNCConnection"
  /\ op = "recv_exact" /\ err = "none"
  /\ args = <<3>>
  /\ Len(returned) = 3
  /\ recv_buffer # <<>>
  /\ Len(delivered) = 4

\* a rectangle that reaches past the right or the bottom edge of the raster
OutOfBounds(r) == r.x + r.width > FbWidth \/ r.y + r.height > FbHeight
\* pixel data of the size read_framebuffer_update reads for the rectangle
WellSized(r) == Len(r.data) = r.width * r.height * 4
\* the caller's step applied the one rectangle r to an allocated raster
AppliesOne(r) ==
  /\ actor' = "caller"
  /\ fb_buffer
  /\ \/ op' = "update_rectangle" /\ args' = <<r>>
     \/ op' = "process_update" /\ args' = <<r>>

\* C32: a received rectangle with x + w greater than the framebuffer width
\* or y + h greater than the framebuffer height is rejected with a protocol
\* error, and no pixel of the raster is changed.
C32_OutOfBoundsRectangleRejected ==
  [][\A r \in Rects : (AppliesOne(r) /\ WellSized(r) /\ OutOfBounds(r))
        => (err' = "VNCProtocolError" /\ raster' = raster)]_vars

\* C33: every successful application of a rectangle to the raster, through
\* update_rectangle or through process_update, sets the dirty flag; a read
\* of is_dirty returns the flag and clears it, so the first read after an
\* application returns true and later reads return false.
C33_DirtySetByEveryApplication ==
  /\ [][(/\ actor' = "caller" /\ err' = "none" /\ fb_buffer
         /\ \/ op' = "update_rectangle"
            \/ op' = "process_update" /\ args' # <<>>)
          => fb_dirty']_vars
  /\ [][(actor' = "caller" /\ op' = "is_dirty")
          => (ret' = (IF fb_dirty THEN "True" ELSE "False") /\ ~fb_dirty')]_vars

\* C38: process_update is all-or-nothing: when applying a rectangle of the
\* list fails (pixel data of the wrong size, or bounds outside the raster),
\* the raster is as it was before the call.
C38_ProcessUpdateAllOrNothing ==
  [][(actor' = "caller" /\ op' = "process_update" /\ err' # "none")
       => raster' = raster]_vars

\* byte i of the password after truncation to 8 bytes and padding with 0x00
PaddedByte(password, i) == IF i <= Len(password) THEN password[i] ELSE 0
\* key is the padded password with the bit order of each byte reversed
BitReversedKey(password, key) ==
  /\ Len(key) = 8
  /\ \A i \in 1..8 : \A k \in 0..7 : Bit(key[i], 7 - k) = Bit(PaddedByte(password, i), k)
  /\ \A i \in 1..8 : key[i] \in 0..255

\* C34 (as stated): the DES key is the first 8 latin-1 bytes of the
\* password, right-padded with 0x00 to 8 bytes, with the bit order of each
\* byte reversed; for "pass" it is 16 86 C6 E6 00 00 00 00.
C34_DesKeyOfPassStated ==
  op = "vnc_auth_response" =>
    /\ BitReversedKey(args[1], result)
    /\ args[1] = PASS => result = <<22, 134, 198, 230, 0, 0, 0, 0>>
\* C34 (amended): the same key derivation; for "pass" the key is
\* 0E 86 CE CE 00 00 00 00.
C34_DesKeyBitReversed ==
  op = "vnc_auth_response" =>
    /\ BitReversedKey(args[1], result)
    /\ args[1] = PASS => result = <<14, 134, 206, 206, 0, 0, 0, 0>>
\* the key of "pass" was derived
C34_KeyOfPass ==
  /\ op = "vnc_auth_response" /\ args[1] = PASS
  /\ result = <<14, 134, 206, 206, 0, 0, 0, 0>>

\* the bytes the server has sent and no _recv_exact has returned
Unread ==
  IF transport = "WebSocketVNCConnection" THEN recv_buffer \o concat(ws_frames)
  ELSE inbuf
\* C35: when a _recv_exact on a connected session times out after part of
\* the requested bytes was read from the transport, either the connection
\* is torn down or the bytes read stay available to the next read.
C35_TimeoutKeepsBytesOrTearsDown ==
  [][(/\ actor' = "caller" /\ op' = "recv_exact" /\ err' = "VNCTimeoutError"
      /\ is_connected(Conn)
      /\ Unread # <<>>)
       => (~is_connected(Conn)' \/ Unread' = Unread)]_vars

\* C36: when the Facade's disconnect() is called while a background
\* recording is active, the recording worker eventually terminates: no
\* worker thread goes on iterating its capture loop forever.
C36_WorkerEndsAfterDisconnect ==
  \A w \in 1..MaxWorkers :
    (op = "disconnect" /\ actor = "caller" /\ w \in Alive) ~> (w \notin Alive)

\* the files of a save_frames call that writes every frame's own pixels
OwnPixels(frs) == [i \in 1..Len(frs) |-> File(frs[i], "frame")]
\* C37: save_frames(frames, ...) writes, for each frame of the list, the
\* pixel data stored in that frame, and performs no Protocol Engine I/O: it
\* writes no FramebufferUpdateRequest, reads no server message and leaves
\* the Framebuffer as it is.
C37_SaveFramesWritesStoredPixels ==
  [][(actor' = "caller" /\ op' = "save_frames")
       => /\ sent' = <<>>
          /\ inbuf' = inbuf
          /\ fb_dirty' = fb_dirty
          /\ err' = "none" => result' = OwnPixels(args'[1])]_vars

\* C39: the WebSocket connection disables TLS certificate verification only
\* when verify_ssl is false: with verify_ssl true the connection is opened
\* with certificate verification required, with or without a
\* certificate_pem.
C39_VerifySslRequiresCertificates ==
  [][(/\ actor' = "caller" /\ op' = "connect" /\ transport = "WebSocketVNCConnection"
      /\ result' # <<>>
      /\ args'[1])
       => result'[1].cert_reqs = "CERT_REQUIRED"]_vars

\* C40: drag_to never leaves the left button pressed on the server while
\* the session stays connected: when drag_to has sent its button-down event
\* and exits, normally or by raising, for any duration, with is_connected
\* still true, the last PointerEvent it sent has mask 0 and the stored
\* button mask is 0.
C40_DragToReleasesButton ==
  [][(/\ actor' = "caller" /\ op' = "drag_to"
      /\ sent' # <<>>
      /\ is_connected(Conn)')
       => (sent'[Len(sent')].c = 0 /\ button_mask' = 0)]_vars

====
